---- MODULE Spec2Model ----
(***************************************************************************)
(* Model of the captions agent of jasocaz/agent-starter-node: the full     *)
(* TranscriptionAgent (sentence assembler, timers, flush, stop).           *)
(*                                                                         *)
(* Text is a sequence of one-character strings, so that normalisation,     *)
(* word splitting, prefix tests and lengths are computed as the code       *)
(* computes them.                                                          *)
(***************************************************************************)
EXTENDS Integers, Sequences, FiniteSets, TLC

(***************************************************************************)
(* Characters                                                              *)
(***************************************************************************)
LowerChars == <<"a","b","c","d","e","f","g","h","i","j","k","l","m",
                "n","o","p","q","r","s","t","u","v","w","x","y","z">>

UpperChars == <<"A","B","C","D","E","F","G","H","I","J","K","L","M",
                "N","O","P","Q","R","S","T","U","V","W","X","Y","Z">>

DigitChars == {"0","1","2","3","4","5","6","7","8","9"}

Range(f) == {f[i] : i \in DOMAIN f}

\* \p{L} or \p{N}
IsAlphaNum(c) == c \in Range(LowerChars) \cup Range(UpperChars) \cup DigitChars

\* \s
IsSpace(c) == c = " "

\* [\p{L}\p{N}']
IsWordChar(c) == IsAlphaNum(c) \/ c = "'"

\* String.prototype.toLowerCase on one character
LowerChar(c) ==
  IF c \in Range(UpperChars)
    THEN LowerChars[CHOOSE i \in DOMAIN UpperChars : UpperChars[i] = c]
    ELSE c

toLowerCase(s) == [i \in DOMAIN s |-> LowerChar(s[i])]

(***************************************************************************)
(* String helpers of the JavaScript runtime, on character sequences        *)
(***************************************************************************)
RECURSIVE trimStart(_)
trimStart(s) ==
  IF s # <<>> /\ IsSpace(Head(s)) THEN trimStart(Tail(s)) ELSE s

RECURSIVE trimEnd(_)
trimEnd(s) ==
  IF s # <<>> /\ IsSpace(s[Len(s)]) THEN trimEnd(SubSeq(s, 1, Len(s) - 1)) ELSE s

trim(s) == trimEnd(trimStart(s))

startsWith(s, p) == Len(p) <= Len(s) /\ SubSeq(s, 1, Len(p)) = p

\* s.slice(idx) with a 0-based index
sliceFrom(s, idx) == SubSeq(s, idx + 1, Len(s))

\* the indexes 1..Len(s), in order
Indexes(s) == [i \in 1..Len(s) |-> i]

\* s.replace(/[^\p{L}\p{N}'\s]+/gu, ' '): each maximal run of characters that
\* are neither word characters nor whitespace becomes one space (of such a
\* run only the last character is kept, as a space)
replaceNonWord(s) ==
  LET plain(c) == IsWordChar(c) \/ IsSpace(c)
      kept == SelectSeq(Indexes(s),
                        LAMBDA i : plain(s[i]) \/ i = Len(s) \/ plain(s[i + 1]))
  IN [k \in 1..Len(kept) |-> IF plain(s[kept[k]]) THEN s[kept[k]] ELSE " "]

\* s.replace(/\s+/g, ' '): of a run of spaces only the last one is kept
collapseSpaces(s) ==
  LET kept == SelectSeq(Indexes(s),
                        LAMBDA i : ~IsSpace(s[i]) \/ i = Len(s) \/ ~IsSpace(s[i + 1]))
  IN [k \in 1..Len(kept) |-> s[kept[k]]]

\* the local function normalize of appendAndMaybeFlush
normalize(s) == trim(collapseSpaces(replaceNonWord(toLowerCase(s))))

\* s.split(' ') on the string cur + s: the pieces between the spaces
splitSpace(s, cur) ==
  LET t == cur \o s
      sp == SelectSeq(Indexes(t), LAMBDA i : t[i] = " ")
      first(k) == IF k = 1 THEN 1 ELSE sp[k - 1] + 1
      last(k) == IF k = Len(sp) + 1 THEN Len(t) ELSE sp[k] - 1
  IN [k \in 1..(Len(sp) + 1) |-> SubSeq(t, first(k), last(k))]

\* norm ? norm.split(' ') : []
wordsOf(norm) == IF norm = <<>> THEN <<>> ELSE splitSpace(norm, <<>>)

\* words.join(' ')
RECURSIVE join(_)
join(ws) ==
  IF ws = <<>> THEN <<>>
  ELSE IF Len(ws) = 1 THEN ws[1]
  ELSE ws[1] \o <<" ">> \o join(Tail(ws))

Min(a, b) == IF a < b THEN a ELSE b

(***************************************************************************)
(* Configuration read by the constructor and by appendAndMaybeFlush        *)
(***************************************************************************)
\* Number(process.env.MIN_CHARS_FOR_FINAL ?? 24)
minCharsForFinal == 24

\* Math.min(6, ...): the longest overlap searched, in words
MaxOverlapWords == 6

\* sliceNorm.length - prevNorm.length < 80
MaxReplaceDelta == 80

\* process.env.WEAK_END_WORDS default
weakEndWords ==
  { <<"d","o","i","n","g">>, <<"g","o","i","n","g">>, <<"i","s">>,
    <<"a","r","e">>, <<"w","a","s">>, <<"w","e","r","e">>,
    <<"a","b","o","u","t">>, <<"w","i","t","h">>, <<"t","o">>,
    <<"f","o","r">>, <<"l","i","k","e">> }

\* the characters of /[.!?...\)\]"。...]$/ that the model's alphabet holds
SentenceEndChars == {".", "!", "?", ")", "]", "\""}

(***************************************************************************)
(* appendAndMaybeFlush: the overlap-aware merge (pure part)                *)
(***************************************************************************)
\* the loop "for (let t = maxOverlap; t >= 1; t--)": the largest t whose
\* suffix of prevWords equals the prefix of sliceWords, 0 when there is none
RECURSIVE overlapFrom(_, _, _)
overlapFrom(prevWords, sliceWords, t) ==
  IF t < 1 THEN 0
  ELSE IF join(SubSeq(prevWords, Len(prevWords) - t + 1, Len(prevWords)))
          = join(SubSeq(sliceWords, 1, t))
    THEN t
  ELSE overlapFrom(prevWords, sliceWords, t - 1)

\* the overlap search that finds nothing: no word of the slice is removed
overlapKNone(prevWords, sliceWords) == 0

overlapK(prevWords, sliceWords) ==
  overlapFrom(prevWords, sliceWords,
              Min(MaxOverlapWords, Min(Len(prevWords), Len(sliceWords))))

\* cleanedSlice.matchAll(/[\p{L}\p{N}']+/gu): the 0-based end index of the
\* k-th match, 0 when there are fewer than k matches.  pos is the 0-based
\* index of Head(s); inWord tells whether the previous character was a word
\* character; seen counts the matches completed or begun so far.
RECURSIVE wordEndIdx(_, _, _, _, _)
wordEndIdx(s, k, pos, inWord, seen) ==
  IF s = <<>> THEN (IF inWord /\ seen = k THEN pos ELSE 0)
  ELSE IF IsWordChar(Head(s))
    THEN wordEndIdx(Tail(s), k, pos + 1, TRUE, IF inWord THEN seen ELSE seen + 1)
  ELSE IF inWord /\ seen = k THEN pos
  ELSE wordEndIdx(Tail(s), k, pos + 1, FALSE, seen)

\* dedupSlice: the slice without its k overlapped leading words
dedupSlice(cleanedSlice, k) ==
  IF k > 0
    THEN trimStart(sliceFrom(cleanedSlice, wordEndIdx(cleanedSlice, k, 0, FALSE, 0)))
    ELSE cleanedSlice

\* the merge as a plain concatenation of buffer and slice
mergeTextConcat(prev, slice) ==
  trim(prev \o (IF prev # <<>> THEN <<" ">> ELSE <<>>) \o trim(slice))

\* the replacement branch never taken
isRestatementNever(prevNorm, sliceNorm) == FALSE


\* the replacement branch's condition
isRestatement(prevNorm, sliceNorm) ==
  /\ sliceNorm # <<>>
  /\ prevNorm # <<>>
  /\ startsWith(sliceNorm, prevNorm)
  /\ Len(sliceNorm) - Len(prevNorm) < MaxReplaceDelta

\* entry.text after the merge of slice into prev
mergeText(prev, slice) ==
  LET cleanedSlice == trim(slice)
      prevNorm == normalize(prev)
      sliceNorm == normalize(cleanedSlice)
      prevWords == wordsOf(prevNorm)
      sliceWords == wordsOf(sliceNorm)
  IN IF isRestatement(prevNorm, sliceNorm)
       THEN cleanedSlice
       ELSE LET k == overlapK(prevWords, sliceWords)
                dd == dedupSlice(cleanedSlice, k)
                needsSpace == prev # <<>> /\ dd # <<>> /\ ~IsSpace(prev[Len(prev)])
            IN trim(prev \o (IF needsSpace THEN <<" ">> ELSE <<>>) \o dd)

\* /[.!?...]$/.test(entry.text)
endsSentence(text) == text # <<>> /\ text[Len(text)] \in SentenceEndChars

\* text.split(/\s+/).pop(): the characters after the last whitespace
RECURSIVE lastToken(_)
lastToken(text) ==
  IF text = <<>> \/ IsSpace(text[Len(text)]) THEN <<>>
  ELSE Append(lastToken(SubSeq(text, 1, Len(text) - 1)), text[Len(text)])

\* .replace(/[^\p{L}\p{N}]+/gu, '').toLowerCase()
lastWord(text) == toLowerCase(SelectSeq(lastToken(text), IsAlphaNum))

\* strongEnd of appendAndMaybeFlush, with the endsSentence test around it
strongEnd(text) ==
  /\ endsSentence(text)
  /\ lastWord(text) \notin weakEndWords
  /\ Len(text) >= minCharsForFinal

(***************************************************************************)
(* Bounds and inputs of the state machine                                  *)
(***************************************************************************)
\* remote participants with an audio track
Speakers == {"p1"}

\* accepted transcripts over all speakers
MaxAppends == 2

\* publishData calls that fail while the room is connected
MaxFaults == 1

SliceThisIs == <<"t","h","i","s"," ","i","s">>

SliceHello == <<"H","e","l","l","o"," ","w","o","r","l","d",".">>

SliceLazyDog ==
  <<"j","u","m","p","s"," ","o","v","e","r"," ","t","h","e"," ",
    "l","a","z","y"," ","d","o","g",".">>

\* the transcripts the speech-to-text service may return
Slices == {SliceThisIs, SliceHello, SliceLazyDog}

(***************************************************************************)
(* State                                                                   *)
(***************************************************************************)
VARIABLES
  started,                 \* start() has connected and registered the handlers
  isRunning,               \* this.isRunning
  loop,                    \* per track: position of startAudioCaptureLoop
  pendingOrder,            \* keys of pendingBySpeaker, in insertion order
  pendingBySpeaker,        \* the entry of each key: text and its pause timer
  orphanTimers,            \* armed pause timers of entries no longer in the map
  finalizeTimerBySpeaker,  \* "none", "armed", or "fired" (handle left in the map)
  sentenceIdBySpeaker,     \* id counter, 0 when absent
  currentSentenceId,       \* active sentence id, 0 when absent
  flights,                 \* flushSentence calls suspended at an await
  wire,                    \* publishData calls in call order, with their outcome
  stopPc,                  \* position of stop()
  faultsLeft,              \* publishData failures the run may still see
  accepted,                \* history: slices handed to appendAndMaybeFlush
  stopSnap,                \* history: buffer and id flushed by stop(), per speaker
  discMark,                \* history: Len(wire) when room.disconnect() was invoked
  options,                 \* this.options: targetLanguage and sttLanguage of the session
  participantLanguagePrefs,\* per participant: sttLanguage and targetLanguage, "" when absent
  prefsFrom,               \* history: sender of the message that last set the entry
  appendCap,               \* transcripts the run may accept
  capture,                 \* per track: the locals of startAudioCaptureLoop
  stream,                  \* per track: frames not yet read, the muted flag
  recentBySpeaker,         \* repetition memory: lastText and lastAt
  now,                     \* Date.now(), in ticks
  audioHist,               \* history of the capture loop, per track; graceFrom is the
                           \* number of the append that set the finalize timer
  activeSessions,          \* the server's map: room name -> agent, 0 when absent
  agents,                  \* the agents the server has created, in creation order
  requests                 \* the requests received, in arrival order, with their answers

vars ==
  <<started, isRunning, loop, pendingOrder, pendingBySpeaker, orphanTimers,
    finalizeTimerBySpeaker, sentenceIdBySpeaker, currentSentenceId, flights,
    wire, stopPc, faultsLeft, accepted, stopSnap, discMark,
    options, participantLanguagePrefs, prefsFrom, appendCap,
    capture, stream, recentBySpeaker, now, audioHist,
    activeSessions, agents, requests>>

\* the server's session map, its agents and its requests
srvVars == <<activeSessions, agents, requests>>

\* the capture loop's frame-level state, the repetition memory and the clock
audioVars == <<capture, stream, recentBySpeaker, now, audioHist>>

\* the session options, the language preferences and the run's append budget
cfgVars == <<options, participantLanguagePrefs, prefsFrom, appendCap, srvVars>>

\* { text: '' } without a timer
EmptyEntry == [text |-> <<>>, timer |-> FALSE]

NoSnap == [text |-> <<>>, sid |-> 0]

\* the locals of startAudioCaptureLoop when the loop starts; data is the
\* window handed to processPcm16Frame, empty outside that call
NoCapture == [buffer |-> <<>>, collectedMs |-> 0, prevTail |-> <<>>, data |-> <<>>]

\* a track that has delivered no frame and is not muted
NoStream == [queue |-> <<>>, muted |-> FALSE, produced |-> 0]

\* this.recentBySpeaker.get(identity) ?? { lastText: '', lastAt: 0 }
NoRecent == [lastText |-> <<>>, lastAt |-> 0]

NoAudioHist ==
  [sttCalls |-> 0, lastMutedId |-> 0, windows |-> <<>>, mutedIds |-> {},
   filtered |-> <<>>, graceFrom |-> 0]

\* no entry in participantLanguagePrefs
NoPrefs == [sttLanguage |-> "", targetLanguage |-> ""]

\* the participants that can send data messages: the speakers and one more
Participants == Speakers \cup {"p2"}

\* this.options.targetLanguage of a session started with targetLanguage "es"
\* (the server passes targetLanguage || 'en', so it is never empty)
sessionTargetLanguage == "es"

\* the rooms a request can name
Rooms == {"r1"}

\* the server when it starts to listen: no session, no agent, no request
InitServer ==
  /\ activeSessions = [r \in Rooms |-> 0]
  /\ agents = <<>>
  /\ requests = <<>>

\* the agent after its constructor: isRunning = false, every map empty; the
\* server that holds it has just started to listen
InitAgent ==
  /\ started = FALSE
  /\ isRunning = FALSE
  /\ loop = [s \in Speakers |-> "off"]
  /\ pendingOrder = <<>>
  /\ pendingBySpeaker = [s \in Speakers |-> EmptyEntry]
  /\ orphanTimers = [s \in Speakers |-> 0]
  /\ finalizeTimerBySpeaker = [s \in Speakers |-> "none"]
  /\ sentenceIdBySpeaker = [s \in Speakers |-> 0]
  /\ currentSentenceId = [s \in Speakers |-> 0]
  /\ flights = <<>>
  /\ wire = <<>>
  /\ stopPc = "idle"
  /\ accepted = [s \in Speakers |-> <<>>]
  /\ stopSnap = [s \in Speakers |-> NoSnap]
  /\ discMark = 0
  /\ participantLanguagePrefs = [p \in Participants |-> NoPrefs]
  /\ prefsFrom = [p \in Participants |-> "none"]
  /\ capture = [s \in Speakers |-> NoCapture]
  /\ stream = [s \in Speakers |-> NoStream]
  /\ recentBySpeaker = [s \in Speakers |-> NoRecent]
  /\ now = 0
  /\ audioHist = [s \in Speakers |-> NoAudioHist]
  /\ InitServer

\* runs in which every publishData call on a connected room succeeds
Init ==
  /\ InitAgent
  /\ faultsLeft = 0
  /\ options = [targetLanguage |-> sessionTargetLanguage, sttLanguage |-> ""]
  /\ appendCap = MaxAppends

\* runs in which up to MaxFaults publishData calls are rejected
InitFaults ==
  /\ InitAgent
  /\ faultsLeft = MaxFaults
  /\ options = [targetLanguage |-> sessionTargetLanguage, sttLanguage |-> ""]
  /\ appendCap = MaxAppends

(***************************************************************************)
(* Derived views                                                           *)
(***************************************************************************)
HasEntry(s) == \E i \in DOMAIN pendingOrder : pendingOrder[i] = s

\* the room is connected: publishData can succeed
RoomConnected == started /\ isRunning /\ stopPc \in {"idle", "flushing"}

\* the records that reached the data channel, in publication order
Published == SelectSeq(wire, LAMBDA r : r.ok)

RECURSIVE SumLen(_, _)
SumLen(f, S) ==
  IF S = {} THEN 0
  ELSE LET x == CHOOSE y \in S : TRUE IN Len(f[x]) + SumLen(f, S \ {x})

nAppends == SumLen(accepted, Speakers)

RemoveAt(q, i) == SubSeq(q, 1, i - 1) \o SubSeq(q, i + 1, Len(q))

\* the session default alone, whatever the participant's preferences
targetLangSession(s) == options.targetLanguage

\* participantPrefs?.targetLanguage || this.options.targetLanguage
targetLangOf(s) ==
  IF participantLanguagePrefs[s].targetLanguage # ""
    THEN participantLanguagePrefs[s].targetLanguage
    ELSE options.targetLanguage

\* participantPrefs?.sttLanguage || this.options.sttLanguage ||
\* process.env.STT_LANGUAGE (unset): "" stands for automatic detection
sttLangOf(s) ==
  IF participantLanguagePrefs[s].sttLanguage # ""
    THEN participantLanguagePrefs[s].sttLanguage
    ELSE options.sttLanguage

(***************************************************************************)
(* The agent's mutable maps as one record, so that the synchronous part of *)
(* several calls can be composed inside one step.                          *)
(***************************************************************************)
Maps ==
  [pend |-> pendingBySpeaker, order |-> pendingOrder, orph |-> orphanTimers,
   csid |-> currentSentenceId, sidBy |-> sentenceIdBySpeaker,
   fl |-> flights, wire |-> wire, faults |-> faultsLeft]

SetMaps(m) ==
  /\ pendingBySpeaker' = m.pend
  /\ pendingOrder' = m.order
  /\ orphanTimers' = m.orph
  /\ currentSentenceId' = m.csid
  /\ sentenceIdBySpeaker' = m.sidBy
  /\ flights' = m.fl
  /\ wire' = m.wire
  /\ faultsLeft' = m.faults

InOrder(order, s) == \E i \in DOMAIN order : order[i] = s

\* this.pendingBySpeaker.set(speaker, entry) with a NEW entry object: the
\* replaced object keeps its armed pause timer, which nothing can cancel now
setEntry(m, s, entry) ==
  [m EXCEPT !.pend[s] = entry,
            !.order = IF InOrder(m.order, s) THEN @ ELSE Append(@, s),
            !.orph[s] = IF InOrder(m.order, s) /\ m.pend[s].timer THEN @ + 1 ELSE @]

\* the id flushSentence uses: the active one, else a freshly allocated one
flushSid(csid, sidBy) == IF csid # 0 THEN csid ELSE sidBy + 1

\* one publishData call of sendTranscriptionMessage
TranscriptionRecord(s, text, sid, final, ok) ==
  [type |-> "transcription", speaker |-> s, text |-> text, sentenceId |-> sid,
   final |-> final, ok |-> ok]

\* one publishData call of translateAndSend (text is originalText)
TranslationRecord(s, text, sid, lang, ok) ==
  [type |-> "translation", speaker |-> s, text |-> text, sentenceId |-> sid,
   final |-> FALSE, targetLanguage |-> lang, ok |-> ok]

\* publishData on a channel that does not keep the order of the calls
publishDataUnordered(m, rec) ==
  [m EXCEPT !.wire = <<rec>> \o @,
            !.faults = IF ~rec.ok /\ RoomConnected THEN @ - 1 ELSE @]

\* a publishData call: the record goes on the wire; a failure while the room
\* is connected uses up one of the run's failures
publishData(m, rec) ==
  [m EXCEPT !.wire = Append(@, rec),
            !.faults = IF ~rec.ok /\ RoomConnected THEN @ - 1 ELSE @]

\* flushSentence up to its first await: the early returns, clearTimeout of the
\* entry's pause timer, the id allocation and the publishData call of
\* sendTranscriptionMessage.  ok is the outcome of that publish.
flushStart(m, s, final, ok, byStop) ==
  IF ~InOrder(m.order, s) \/ trim(m.pend[s].text) = <<>> THEN m
  ELSE LET text == trim(m.pend[s].text)
           sid == flushSid(m.csid[s], m.sidBy[s])
           m1 == publishData(m, TranscriptionRecord(s, text, sid, final, ok))
       IN [m1 EXCEPT !.pend[s].timer = FALSE,
                     !.sidBy[s] = IF m.csid[s] = 0 THEN sid ELSE @,
                     !.csid[s] = sid,
                     !.fl = Append(@, [speaker |-> s, final |-> final, text |-> text,
                                       sid |-> sid, pc |-> "send", byStop |-> byStop,
                                       lang |-> ""])]

\* the end of a final flushSentence: the buffer and the active id are dropped
finishFinal(m, i) ==
  LET f == m.fl[i]
      m1 == setEntry(m, f.speaker, EmptyEntry)
  IN [m1 EXCEPT !.csid[f.speaker] = 0, !.fl = RemoveAt(@, i)]

\* the end of an interim flushSentence: the text read before the await is
\* stored back as a new entry
finishInterim(m, i) ==
  LET f == m.fl[i]
      m1 == setEntry(m, f.speaker, [text |-> f.text, timer |-> FALSE])
  IN [m1 EXCEPT !.fl = RemoveAt(@, i)]

\* the outcomes a publishData call made now can have
PublishOutcomes == IF RoomConnected THEN {TRUE, FALSE} ELSE {FALSE}

\* the step to the maps m, allowed while the run's failures are not used up
StepMaps(m) == m.faults >= 0 /\ SetMaps(m)

(***************************************************************************)
(* Lifecycle and the audio loop                                            *)
(***************************************************************************)
\* start(): connect, register the handlers, isRunning = true
Start ==
  /\ ~started
  /\ started' = TRUE
  /\ isRunning' = TRUE
  /\ UNCHANGED <<cfgVars, audioVars, loop, pendingOrder, pendingBySpeaker, orphanTimers,
                 finalizeTimerBySpeaker, sentenceIdBySpeaker, currentSentenceId,
                 flights, wire, stopPc, accepted, stopSnap, discMark, faultsLeft>>

\* handleTrackSubscribed -> startAudioCaptureLoop up to the first reader.read()
TrackSubscribed(s) ==
  /\ started
  /\ loop[s] = "off"
  /\ loop' = [loop EXCEPT ![s] = IF isRunning THEN "read" ELSE "ended"]
  /\ UNCHANGED <<cfgVars, audioVars, started, isRunning, pendingOrder, pendingBySpeaker, orphanTimers,
                 finalizeTimerBySpeaker, sentenceIdBySpeaker, currentSentenceId,
                 flights, wire, stopPc, accepted, stopSnap, discMark, faultsLeft>>

\* reader.read() reports done: the track was unsubscribed or its stream closed
StreamEnd(s) ==
  /\ loop[s] = "read"
  /\ loop' = [loop EXCEPT ![s] = "ended"]
  /\ UNCHANGED <<cfgVars, audioVars, started, isRunning, pendingOrder, pendingBySpeaker, orphanTimers,
                 finalizeTimerBySpeaker, sentenceIdBySpeaker, currentSentenceId,
                 flights, wire, stopPc, accepted, stopSnap, discMark, faultsLeft>>

\* a frame completes a window above the VAD threshold: processPcm16Frame
\* posts it to the speech-to-text service and awaits the answer
WindowEmitted(s) ==
  /\ loop[s] = "read"
  /\ loop' = [loop EXCEPT ![s] = "stt"]
  /\ UNCHANGED <<cfgVars, audioVars, started, isRunning, pendingOrder, pendingBySpeaker, orphanTimers,
                 finalizeTimerBySpeaker, sentenceIdBySpeaker, currentSentenceId,
                 flights, wire, stopPc, accepted, stopSnap, discMark, faultsLeft>>

\* a frame that completes no window arrives after isRunning became false:
\* the while condition ends the loop
LoopExit(s) ==
  /\ loop[s] = "read"
  /\ ~isRunning
  /\ loop' = [loop EXCEPT ![s] = "ended"]
  /\ UNCHANGED <<cfgVars, audioVars, started, isRunning, pendingOrder, pendingBySpeaker, orphanTimers,
                 finalizeTimerBySpeaker, sentenceIdBySpeaker, currentSentenceId,
                 flights, wire, stopPc, accepted, stopSnap, discMark, faultsLeft>>

\* the loop's next position once processPcm16Frame has returned
afterFrame == IF isRunning THEN "read" ELSE "ended"

\* the speech-to-text call fails, returns nothing, or the filter drops the text
SttDrop(s) ==
  /\ loop[s] = "stt"
  /\ loop' = [loop EXCEPT ![s] = afterFrame]
  /\ capture' = [capture EXCEPT ![s].data = <<>>]
  /\ UNCHANGED <<stream, recentBySpeaker, now, audioHist>>
  /\ UNCHANGED <<cfgVars, started, isRunning, pendingOrder, pendingBySpeaker, orphanTimers,
                 finalizeTimerBySpeaker, sentenceIdBySpeaker, currentSentenceId,
                 flights, wire, stopPc, accepted, stopSnap, discMark, faultsLeft>>

(***************************************************************************)
(* appendAndMaybeFlush                                                     *)
(***************************************************************************)
\* the entry after the merge, with the new pause timer armed
appendEntry(entry, slice) == [text |-> mergeText(entry.text, slice), timer |-> TRUE]

\* the finalize timer after an append that left the buffer as text
appendFinalizeTimer(ft, text) == IF strongEnd(text) THEN "armed" ELSE ft

\* the append that scheduled the timer in finalizeTimerBySpeaker, after the
\* n-th append left the buffer as text: a strong ending clears the timer of
\* the map and schedules a new one
appendGraceFrom(ft, from, text, n) == IF strongEnd(text) THEN n ELSE from

\* the speech-to-text call returns an accepted transcript:
\* appendAndMaybeFlush(speaker, slice), which has no await
SttAccept(s, slice) ==
  /\ loop[s] = "stt"
  /\ nAppends < appendCap
  /\ LET entry == IF HasEntry(s) THEN pendingBySpeaker[s] ELSE EmptyEntry
         newEntry == appendEntry(entry, slice)
     IN /\ pendingBySpeaker' = [pendingBySpeaker EXCEPT ![s] = newEntry]
        /\ pendingOrder' = IF HasEntry(s) THEN pendingOrder ELSE Append(pendingOrder, s)
        /\ finalizeTimerBySpeaker' =
             [finalizeTimerBySpeaker EXCEPT ![s] = appendFinalizeTimer(@, newEntry.text)]
        /\ audioHist' =
             [audioHist EXCEPT
                ![s].graceFrom = appendGraceFrom(finalizeTimerBySpeaker[s], @,
                                                 newEntry.text, Len(accepted[s]) + 1)]
  /\ accepted' = [accepted EXCEPT ![s] = Append(@, slice)]
  /\ recentBySpeaker' =
       [recentBySpeaker EXCEPT ![s] = [lastText |-> slice, lastAt |-> now]]
  /\ loop' = [loop EXCEPT ![s] = afterFrame]
  /\ capture' = [capture EXCEPT ![s].data = <<>>]
  /\ UNCHANGED <<stream, now>>
  /\ UNCHANGED <<cfgVars, started, isRunning, orphanTimers, sentenceIdBySpeaker,
                 currentSentenceId, flights, wire, stopPc, stopSnap, discMark, faultsLeft>>

(***************************************************************************)
(* Timers                                                                  *)
(***************************************************************************)
\* the pause timer's callback: "pause wins" when a finalize handle is in the
\* map, an interim flush otherwise
pauseFinal(ft) == ft # "none"

\* the pause callback without clearTimeout and delete: the finalize timer
\* stays as it was
pauseKeepsTimer(ft) == ft


\* the map's finalize entry after the pause callback
pauseFinalizeTimer(ft) == "none"

\* the callback of a pause timer, run on the maps m (its own timer has fired)
pauseCallback(m, s, ok) ==
  flushStart(m, s, pauseFinal(finalizeTimerBySpeaker[s]), ok, FALSE)

\* the pause timer of the speaker's current entry fires
PauseFire(s) ==
  /\ HasEntry(s)
  /\ pendingBySpeaker[s].timer
  /\ \E ok \in PublishOutcomes :
       StepMaps(pauseCallback([Maps EXCEPT !.pend[s].timer = FALSE], s, ok))
  /\ finalizeTimerBySpeaker' =
       [finalizeTimerBySpeaker EXCEPT ![s] = pauseFinalizeTimer(@)]
  /\ UNCHANGED <<cfgVars, audioVars, started, isRunning, loop, stopPc, accepted, stopSnap, discMark>>

\* a pause timer fires whose entry object was replaced in the map
OrphanFire(s) ==
  /\ orphanTimers[s] > 0
  /\ \E ok \in PublishOutcomes :
       StepMaps(pauseCallback([Maps EXCEPT !.orph[s] = @ - 1], s, ok))
  /\ finalizeTimerBySpeaker' =
       [finalizeTimerBySpeaker EXCEPT ![s] = pauseFinalizeTimer(@)]
  /\ UNCHANGED <<cfgVars, audioVars, started, isRunning, loop, stopPc, accepted, stopSnap, discMark>>

\* the finalize (grace) timer fires: flushSentence(speaker, true); the handle
\* stays in finalizeTimerBySpeaker
FinalizeFire(s) ==
  /\ finalizeTimerBySpeaker[s] = "armed"
  /\ finalizeTimerBySpeaker' = [finalizeTimerBySpeaker EXCEPT ![s] = "fired"]
  /\ \E ok \in PublishOutcomes : StepMaps(flushStart(Maps, s, TRUE, ok, FALSE))
  /\ UNCHANGED <<cfgVars, audioVars, started, isRunning, loop, stopPc, accepted, stopSnap, discMark>>

(***************************************************************************)
(* flushSentence after its awaits                                          *)
(***************************************************************************)
\* translateAndSend called for interim flushes too
wantsTranslationAlways(f) == targetLangOf(f.speaker) # ""

\* "if (final) { ... if (targetLang) await this.translateAndSend(...) }"
wantsTranslation(f) == f.final /\ targetLangOf(f.speaker) # ""

\* the last statements of flushSentence
finishFlush(m, i) ==
  IF m.fl[i].final THEN finishFinal(m, i) ELSE finishInterim(m, i)

\* the publishData call of sendTranscriptionMessage settles (a rejection is
\* caught and logged): a final flush goes on to translateAndSend, which
\* resolves its target language and awaits the language model; any other
\* flush ends
SendDone(i) ==
  /\ i \in DOMAIN flights
  /\ flights[i].pc = "send"
  /\ SetMaps(IF wantsTranslation(flights[i])
               THEN [Maps EXCEPT !.fl[i].pc = "llm",
                                 !.fl[i].lang = targetLangOf(flights[i].speaker)]
               ELSE finishFlush(Maps, i))
  /\ UNCHANGED <<cfgVars, audioVars, started, isRunning, loop, finalizeTimerBySpeaker, stopPc,
                 accepted, stopSnap, discMark>>

\* the language model answers with a translation: translateAndSend calls
\* publishData and awaits it
LlmDone(i) ==
  /\ i \in DOMAIN flights
  /\ flights[i].pc = "llm"
  /\ \E ok \in PublishOutcomes :
       StepMaps(publishData([Maps EXCEPT !.fl[i].pc = "tpub"],
                            TranslationRecord(flights[i].speaker, flights[i].text,
                                              flights[i].sid, flights[i].lang, ok)))
  /\ UNCHANGED <<cfgVars, audioVars, started, isRunning, loop, finalizeTimerBySpeaker, stopPc,
                 accepted, stopSnap, discMark>>

\* a failed language-model call whose error leaves flushSentence: the call
\* ends without its last statements
LlmFailAborts(i) ==
  /\ i \in DOMAIN flights
  /\ flights[i].pc = "llm"
  /\ SetMaps([Maps EXCEPT !.fl = RemoveAt(@, i)])
  /\ UNCHANGED <<cfgVars, audioVars, started, isRunning, loop, finalizeTimerBySpeaker, stopPc,
                 accepted, stopSnap, discMark>>


\* the language model call fails or returns no text: logged, then the flush ends
LlmFail(i) ==
  /\ i \in DOMAIN flights
  /\ flights[i].pc = "llm"
  /\ SetMaps(finishFlush(Maps, i))
  /\ UNCHANGED <<cfgVars, audioVars, started, isRunning, loop, finalizeTimerBySpeaker, stopPc,
                 accepted, stopSnap, discMark>>

\* the translation's publishData call settles, then the flush ends
TpubDone(i) ==
  /\ i \in DOMAIN flights
  /\ flights[i].pc = "tpub"
  /\ SetMaps(finishFlush(Maps, i))
  /\ UNCHANGED <<cfgVars, audioVars, started, isRunning, loop, finalizeTimerBySpeaker, stopPc,
                 accepted, stopSnap, discMark>>

(***************************************************************************)
(* stop() and the Disconnected event                                       *)
(***************************************************************************)
\* Array.from(pendingBySpeaker.entries()).map(...): the synchronous part of
\* flushSentence(speaker, true) for every entry with text, in map order
RECURSIVE stopFlushAll(_, _, _)
stopFlushAll(m, order, oks) ==
  IF order = <<>> THEN m
  ELSE LET s == Head(order)
           m1 == IF m.pend[s].text # <<>>
                   THEN flushStart(m, s, TRUE, oks[s], TRUE)
                   ELSE m
       IN stopFlushAll(m1, Tail(order), oks)

\* stop() up to "await Promise.all(...)"
Stop ==
  /\ started
  /\ isRunning
  /\ stopPc = "idle"
  /\ stopPc' = "flushing"
  /\ \E oks \in [Speakers -> PublishOutcomes] :
       /\ \A s \in Speakers :
            (~HasEntry(s) \/ pendingBySpeaker[s].text = <<>>) => oks[s] = FALSE
       /\ StepMaps(stopFlushAll(Maps, pendingOrder, oks))
  /\ stopSnap' =
       [s \in Speakers |->
          IF HasEntry(s) /\ pendingBySpeaker[s].text # <<>>
            THEN [text |-> trim(pendingBySpeaker[s].text),
                  sid |-> flushSid(currentSentenceId[s], sentenceIdBySpeaker[s])]
            ELSE NoSnap]
  /\ UNCHANGED <<cfgVars, audioVars, started, isRunning, loop, finalizeTimerBySpeaker, accepted, discMark>>

\* every flush that stop() started has returned: pendingBySpeaker.clear(),
\* then room.disconnect() is invoked and awaited
StopFlushed ==
  /\ stopPc = "flushing"
  /\ \A i \in DOMAIN flights : ~flights[i].byStop
  /\ stopPc' = "disconnecting"
  /\ pendingOrder' = <<>>
  /\ pendingBySpeaker' = [s \in Speakers |-> EmptyEntry]
  /\ orphanTimers' =
       [s \in Speakers |->
          IF HasEntry(s) /\ pendingBySpeaker[s].timer
            THEN orphanTimers[s] + 1 ELSE orphanTimers[s]]
  /\ discMark' = Len(wire)
  /\ UNCHANGED <<cfgVars, audioVars, started, isRunning, loop, finalizeTimerBySpeaker,
                 sentenceIdBySpeaker, currentSentenceId, flights, wire,
                 accepted, stopSnap, faultsLeft>>

\* room.disconnect() returns: isRunning = false
StopDone ==
  /\ stopPc = "disconnecting"
  /\ stopPc' = "done"
  /\ isRunning' = FALSE
  /\ UNCHANGED <<cfgVars, audioVars, started, loop, pendingOrder, pendingBySpeaker, orphanTimers,
                 finalizeTimerBySpeaker, sentenceIdBySpeaker, currentSentenceId,
                 flights, wire, accepted, stopSnap, discMark, faultsLeft>>

\* handleDisconnected: the room reports Disconnected
Disconnected ==
  /\ started
  /\ isRunning
  /\ isRunning' = FALSE
  /\ UNCHANGED <<cfgVars, audioVars, started, loop, pendingOrder, pendingBySpeaker, orphanTimers,
                 finalizeTimerBySpeaker, sentenceIdBySpeaker, currentSentenceId,
                 flights, wire, stopPc, accepted, stopSnap, discMark, faultsLeft>>

(***************************************************************************)
(* Specification                                                           *)
(***************************************************************************)
Next ==
  \/ Start
  \/ Stop
  \/ StopFlushed
  \/ StopDone
  \/ Disconnected
  \/ \E s \in Speakers : TrackSubscribed(s)
  \/ \E s \in Speakers : StreamEnd(s)
  \/ \E s \in Speakers : WindowEmitted(s)
  \/ \E s \in Speakers : LoopExit(s)
  \/ \E s \in Speakers : SttDrop(s)
  \/ \E s \in Speakers, slice \in Slices : SttAccept(s, slice)
  \/ \E s \in Speakers : PauseFire(s)
  \/ \E s \in Speakers : OrphanFire(s)
  \/ \E s \in Speakers : FinalizeFire(s)
  \/ \E i \in 1..Len(flights) : SendDone(i)
  \/ \E i \in 1..Len(flights) : LlmDone(i)
  \/ \E i \in 1..Len(flights) : LlmFail(i)
  \/ \E i \in 1..Len(flights) : TpubDone(i)

Spec == Init /\ [][Next]_vars

(***************************************************************************)
(* Language preferences: the sessions in which language_prefs messages     *)
(* arrive on the captions topic                                            *)
(***************************************************************************)
\* accepted transcripts in the runs with language_prefs messages
MaxAppendsPrefs == 1

\* the { sttLanguage, targetLanguage } pairs that language_prefs messages carry
PrefsPayloads ==
  { [sttLanguage |-> "fr", targetLanguage |-> "fr"],
    [sttLanguage |-> "en", targetLanguage |-> ""] }

\* handleDataReceived keeping a stored field that the message does not carry
DataReceivedMerges(from, pid, prefs) ==
  /\ RoomConnected
  /\ participantLanguagePrefs' =
       [participantLanguagePrefs EXCEPT
          ![pid] = [sttLanguage |-> IF prefs.sttLanguage # ""
                                      THEN prefs.sttLanguage ELSE @.sttLanguage,
                    targetLanguage |-> IF prefs.targetLanguage # ""
                                         THEN prefs.targetLanguage ELSE @.targetLanguage]]
  /\ prefsFrom' = [prefsFrom EXCEPT ![pid] = from]
  /\ UNCHANGED <<started, isRunning, loop, pendingOrder, pendingBySpeaker,
                 orphanTimers, finalizeTimerBySpeaker, sentenceIdBySpeaker,
                 currentSentenceId, flights, wire, stopPc, faultsLeft, accepted,
                 stopSnap, discMark, options, appendCap, audioVars, srvVars>>

\* handleDataReceived for a language_prefs message on the captions topic, sent
\* by participant from and naming participantId pid
DataReceived(from, pid, prefs) ==
  /\ RoomConnected
  /\ participantLanguagePrefs' = [participantLanguagePrefs EXCEPT ![pid] = prefs]
  /\ prefsFrom' = [prefsFrom EXCEPT ![pid] = from]
  /\ UNCHANGED <<started, isRunning, loop, pendingOrder, pendingBySpeaker,
                 orphanTimers, finalizeTimerBySpeaker, sentenceIdBySpeaker,
                 currentSentenceId, flights, wire, stopPc, faultsLeft, accepted,
                 stopSnap, discMark, options, appendCap, audioVars, srvVars>>

\* a session started by POST /start without targetLanguage and with
\* sttLanguage "en": the server passes targetLanguage || 'en'
InitPrefs ==
  /\ InitAgent
  /\ faultsLeft = 0
  /\ options = [targetLanguage |-> "en", sttLanguage |-> "en"]
  /\ appendCap = MaxAppendsPrefs

NextPrefs ==
  \/ Next
  \/ \E from \in Participants, pid \in Speakers, prefs \in PrefsPayloads :
       DataReceived(from, pid, prefs)

SpecPrefs == InitPrefs /\ [][NextPrefs]_vars

(***************************************************************************)
(* Language preferences of several participants: sessions in which any     *)
(* participant id is named by language_prefs messages                      *)
(***************************************************************************)
\* the pairs these messages carry: both fields, sttLanguage alone, and
\* targetLanguage alone
PrefsPayloadsAll ==
  PrefsPayloads \cup { [sttLanguage |-> "", targetLanguage |-> "de"] }

NextPrefsAll ==
  \/ Start
  \/ Disconnected
  \/ \E s \in Speakers : TrackSubscribed(s)
  \/ \E s \in Speakers : StreamEnd(s)
  \/ \E s \in Speakers : WindowEmitted(s)
  \/ \E s \in Speakers : LoopExit(s)
  \/ \E s \in Speakers : SttDrop(s)
  \/ \E from \in Participants, pid \in Participants, prefs \in PrefsPayloadsAll :
       DataReceived(from, pid, prefs)

SpecPrefsAll == InitPrefs /\ [][NextPrefsAll]_vars


SpecFaults == InitFaults /\ [][Next]_vars

(***************************************************************************)
(* The capture loop frame by frame, and the transcript filter.  A frame is *)
(* one sample [amp, id, backlog]; id numbers the frames of a track in the   *)
(* order the track delivers them, and backlog tells that the frame arrived *)
(* while a speech-to-text call was awaited (history).                      *)
(***************************************************************************)
\* frameSizeMs of the AudioStream
FrameMs == 20

\* BUFFER_TARGET_MS: two frames fill a window
TargetMs == 40

\* floor((overlapMs / 1000) * sampleRate) * channels: the overlap, in samples
TailSamples == 1

\* VAD_THRESHOLD
VadThreshold == 2

\* SHORT_HIGH_RMS
ShortHighRms == 3

\* REPEAT_WINDOW_MS, in ticks of the clock
RepeatWindowMs == 2

\* frames one track delivers
MaxFrames == 5

\* ticks of the clock
MaxNow == 2

\* accepted transcripts in the runs of the capture loop
MaxAppendsAudio == 2

\* the sample values: silence and speech
Amplitudes == {0, 3}

TextUh == <<"u","h">>

TextThankYou == <<"T","h","a","n","k"," ","y","o","u">>

TextDot == <<".">>

\* the trimmed, non-empty transcripts the speech-to-text service may return
AudioTexts == {TextUh, TextThankYou, TextDot, SliceThisIs}

\* process.env.BLOCKLIST_PHRASES, split at the commas
BlocklistEnv == { <<" ","T","h","a","n","k"," ","Y","o","u">> }

RECURSIVE SumSq(_)
SumSq(samples) ==
  IF samples = <<>> THEN 0
  ELSE Head(samples).amp * Head(samples).amp + SumSq(Tail(samples))

\* computeRms(data) < t, for an integer t: sqrt(sum / n) < t iff sum < t*t*n,
\* and computeRms of no samples is 0
rmsBelow(data, t) ==
  IF data = <<>> THEN 0 < t ELSE SumSq(data) < t * t * Len(data)

\* the whole window kept as the tail
tailOfWhole(data) == data

\* data.slice(data.length - tailSamples), tailSamples = min(overlap, length)
tailOf(data) ==
  SubSeq(data, Len(data) - Min(TailSamples, Len(data)) + 1, Len(data))

FrameIds(frames) == {frames[i].id : i \in DOMAIN frames}

\* the frames still queued after a read that drops the backlog
restLatest(queue) == <<>>

\* the frames still queued in the AudioStream after reader.read()
restQueue(queue) == Tail(queue)

\* the track delivers a frame; it waits in the AudioStream until it is read
FrameProduced(s, amp) ==
  /\ loop[s] \in {"read", "stt"}
  /\ stream[s].produced < MaxFrames
  /\ stream' = [stream EXCEPT
                  ![s].queue = Append(@, [amp |-> amp, id |-> stream[s].produced + 1,
                                          backlog |-> loop[s] = "stt"]),
                  ![s].produced = @ + 1]
  /\ UNCHANGED <<capture, recentBySpeaker, now, audioHist>>
  /\ UNCHANGED <<cfgVars, started, isRunning, loop, pendingOrder, pendingBySpeaker,
                 orphanTimers, finalizeTimerBySpeaker, sentenceIdBySpeaker,
                 currentSentenceId, flights, wire, stopPc, faultsLeft, accepted,
                 stopSnap, discMark>>

\* the track is muted or unmuted
SetMuted(s, m) ==
  /\ loop[s] \in {"read", "stt"}
  /\ stream[s].muted # m
  /\ stream' = [stream EXCEPT ![s].muted = m]
  /\ UNCHANGED <<capture, recentBySpeaker, now, audioHist>>
  /\ UNCHANGED <<cfgVars, started, isRunning, loop, pendingOrder, pendingBySpeaker,
                 orphanTimers, finalizeTimerBySpeaker, sentenceIdBySpeaker,
                 currentSentenceId, flights, wire, stopPc, faultsLeft, accepted,
                 stopSnap, discMark>>

\* Date.now() advances
Tick ==
  /\ now < MaxNow
  /\ now' = now + 1
  /\ UNCHANGED <<capture, stream, recentBySpeaker, audioHist>>
  /\ UNCHANGED <<cfgVars, started, isRunning, loop, pendingOrder, pendingBySpeaker,
                 orphanTimers, finalizeTimerBySpeaker, sentenceIdBySpeaker,
                 currentSentenceId, flights, wire, stopPc, faultsLeft, accepted,
                 stopSnap, discMark>>


\* the loop with "void this.processPcm16Frame(...)": the next frame is read
\* while the speech-to-text call is awaited
ReadFrameNoAwait(s) ==
  /\ loop[s] \in {"read", "stt"}
  /\ stream[s].queue # <<>>
  /\ LET c == capture[s]
         f == Head(stream[s].queue)
         buf == Append(c.buffer, f)
         ms == c.collectedMs + FrameMs
         data == c.prevTail \o buf
         low == rmsBelow(data, VadThreshold)
     IN IF stream[s].muted
          THEN /\ capture' = [capture EXCEPT ![s].buffer = <<>>, ![s].collectedMs = 0]
               /\ audioHist' = [audioHist EXCEPT
                                  ![s].lastMutedId = f.id,
                                  ![s].mutedIds = @ \cup FrameIds(buf)]
               /\ UNCHANGED loop
        ELSE IF ms < TargetMs
          THEN /\ capture' = [capture EXCEPT ![s].buffer = buf, ![s].collectedMs = ms]
               /\ UNCHANGED <<loop, audioHist>>
        ELSE /\ capture' = [capture EXCEPT
                              ![s] = [buffer |-> <<>>, collectedMs |-> 0,
                                      prevTail |-> tailOf(data),
                                      data |-> IF low THEN c.data ELSE data]]
             /\ audioHist' = [audioHist EXCEPT
                                ![s].windows =
                                  Append(@, [ids |-> FrameIds(buf), data |-> data,
                                             low |-> low,
                                             mutedBefore |-> audioHist[s].lastMutedId]),
                                ![s].sttCalls = IF low THEN @ ELSE @ + 1]
             /\ loop' = [loop EXCEPT ![s] = IF low THEN @ ELSE "stt"]
  /\ stream' = [stream EXCEPT ![s].queue = restQueue(@)]
  /\ UNCHANGED <<recentBySpeaker, now>>
  /\ UNCHANGED <<cfgVars, started, isRunning, pendingOrder, pendingBySpeaker,
                 orphanTimers, finalizeTimerBySpeaker, sentenceIdBySpeaker,
                 currentSentenceId, flights, wire, stopPc, faultsLeft, accepted,
                 stopSnap, discMark>>


\* one iteration of the loop of startAudioCaptureLoop: reader.read() returns
\* a frame, which is dropped (muted), buffered, or completes a window; a
\* window at or above the VAD threshold goes to processPcm16Frame, which
\* posts it to the speech-to-text service
ReadFrame(s) ==
  /\ loop[s] = "read"
  /\ stream[s].queue # <<>>
  /\ LET c == capture[s]
         f == Head(stream[s].queue)
         buf == Append(c.buffer, f)
         ms == c.collectedMs + FrameMs
         data == c.prevTail \o buf
         low == rmsBelow(data, VadThreshold)
     IN IF stream[s].muted
          THEN /\ capture' = [capture EXCEPT ![s].buffer = <<>>, ![s].collectedMs = 0]
               /\ audioHist' = [audioHist EXCEPT
                                  ![s].lastMutedId = f.id,
                                  ![s].mutedIds = @ \cup FrameIds(buf)]
               /\ loop' = [loop EXCEPT ![s] = afterFrame]
        ELSE IF ms < TargetMs
          THEN /\ capture' = [capture EXCEPT ![s].buffer = buf, ![s].collectedMs = ms]
               /\ loop' = [loop EXCEPT ![s] = afterFrame]
               /\ UNCHANGED audioHist
        ELSE /\ capture' = [capture EXCEPT
                              ![s] = [buffer |-> <<>>, collectedMs |-> 0,
                                      prevTail |-> tailOf(data),
                                      data |-> IF low THEN <<>> ELSE data]]
             /\ audioHist' = [audioHist EXCEPT
                                ![s].windows =
                                  Append(@, [ids |-> FrameIds(buf), data |-> data,
                                             low |-> low,
                                             mutedBefore |-> audioHist[s].lastMutedId]),
                                ![s].sttCalls = IF low THEN @ ELSE @ + 1]
             /\ loop' = [loop EXCEPT ![s] = IF low THEN afterFrame ELSE "stt"]
  /\ stream' = [stream EXCEPT ![s].queue = restQueue(@)]
  /\ UNCHANGED <<recentBySpeaker, now>>
  /\ UNCHANGED <<cfgVars, started, isRunning, pendingOrder, pendingBySpeaker,
                 orphanTimers, finalizeTimerBySpeaker, sentenceIdBySpeaker,
                 currentSentenceId, flights, wire, stopPc, faultsLeft, accepted,
                 stopSnap, discMark>>

\* transcribedText.split(/\s+/).filter(Boolean).length
wordCountOf(text) ==
  Len(SelectSeq(splitSpace(text, <<>>), LAMBDA w : w # <<>>))

\* the lower-cased, trimmed phrases of BLOCKLIST_PHRASES
blocklist == {trim(toLowerCase(ph)) : ph \in BlocklistEnv}

\* the blocklist test without lower-casing the transcript
isBlockedExact(text) == text \in blocklist

\* blocklist.includes(transcribedText.toLowerCase())
isBlocked(text) == toLowerCase(text) \in blocklist

\* !/[\p{L}\p{N}]/u.test(transcribedText)
punctOnly(text) == \A i \in DOMAIN text : ~IsAlphaNum(text[i])

\* repInfo.lastText === transcribedText && now - repInfo.lastAt < REPEAT_WINDOW_MS
isRepeat(text, rec, t) == rec.lastText = text /\ t - rec.lastAt < RepeatWindowMs

\* the drop condition of processPcm16Frame
dropTranscript(text, data, rec, t) ==
  \/ isBlocked(text)
  \/ punctOnly(text)
  \/ (wordCountOf(text) <= 2 /\ rmsBelow(data, ShortHighRms) /\ isRepeat(text, rec, t))

\* the speech-to-text call throws and the error ends the capture loop
SttFailEndsLoop(s) ==
  /\ loop[s] = "stt"
  /\ loop' = [loop EXCEPT ![s] = "ended"]
  /\ capture' = [capture EXCEPT ![s].data = <<>>]
  /\ UNCHANGED <<stream, recentBySpeaker, now, audioHist>>
  /\ UNCHANGED <<cfgVars, started, isRunning, pendingOrder, pendingBySpeaker,
                 orphanTimers, finalizeTimerBySpeaker, sentenceIdBySpeaker,
                 currentSentenceId, flights, wire, stopPc, faultsLeft, accepted,
                 stopSnap, discMark>>

\* the speech-to-text call throws: processPcm16Frame catches and logs, and the
\* loop goes on
SttFail(s) ==
  /\ loop[s] = "stt"
  /\ loop' = [loop EXCEPT ![s] = afterFrame]
  /\ capture' = [capture EXCEPT ![s].data = <<>>]
  /\ UNCHANGED <<stream, recentBySpeaker, now, audioHist>>
  /\ UNCHANGED <<cfgVars, started, isRunning, pendingOrder, pendingBySpeaker,
                 orphanTimers, finalizeTimerBySpeaker, sentenceIdBySpeaker,
                 currentSentenceId, flights, wire, stopPc, faultsLeft, accepted,
                 stopSnap, discMark>>

\* the filter's drop branch storing the time of the dropped transcript in the
\* repetition memory
SttAnswerRefreshes(s, text) ==
  IF dropTranscript(text, capture[s].data, recentBySpeaker[s], now)
    THEN /\ loop[s] = "stt"
         /\ loop' = [loop EXCEPT ![s] = afterFrame]
         /\ capture' = [capture EXCEPT ![s].data = <<>>]
         /\ audioHist' = [audioHist EXCEPT ![s].filtered = Append(@, text)]
         /\ recentBySpeaker' = [recentBySpeaker EXCEPT ![s].lastAt = now]
         /\ UNCHANGED <<stream, now>>
         /\ UNCHANGED <<cfgVars, started, isRunning, pendingOrder, pendingBySpeaker,
                        orphanTimers, finalizeTimerBySpeaker, sentenceIdBySpeaker,
                        currentSentenceId, flights, wire, stopPc, faultsLeft, accepted,
                        stopSnap, discMark>>
    ELSE SttAccept(s, text)


\* the speech-to-text call returns text: the filter drops it, or it is
\* accepted, remembered and handed to appendAndMaybeFlush
SttAnswer(s, text) ==
  IF dropTranscript(text, capture[s].data, recentBySpeaker[s], now)
    THEN /\ loop[s] = "stt"
         /\ loop' = [loop EXCEPT ![s] = afterFrame]
         /\ capture' = [capture EXCEPT ![s].data = <<>>]
         /\ audioHist' = [audioHist EXCEPT ![s].filtered = Append(@, text)]
         /\ UNCHANGED <<stream, recentBySpeaker, now>>
         /\ UNCHANGED <<cfgVars, started, isRunning, pendingOrder, pendingBySpeaker,
                        orphanTimers, finalizeTimerBySpeaker, sentenceIdBySpeaker,
                        currentSentenceId, flights, wire, stopPc, faultsLeft, accepted,
                        stopSnap, discMark>>
    ELSE SttAccept(s, text)

\* a session whose capture loop is followed frame by frame
InitAudio ==
  /\ InitAgent
  /\ faultsLeft = 0
  /\ options = [targetLanguage |-> sessionTargetLanguage, sttLanguage |-> ""]
  /\ appendCap = MaxAppendsAudio

NextAudio ==
  \/ Start
  \/ Disconnected
  \/ Tick
  \/ \E s \in Speakers : TrackSubscribed(s)
  \/ \E s \in Speakers, amp \in Amplitudes : FrameProduced(s, amp)
  \/ \E s \in Speakers, m \in BOOLEAN : SetMuted(s, m)
  \/ \E s \in Speakers : ReadFrame(s)
  \/ \E s \in Speakers : SttFail(s)
  \/ \E s \in Speakers, text \in AudioTexts : SttAnswer(s, text)

SpecAudio == InitAudio /\ [][NextAudio]_vars

\* a pending reader.read() resolves when a frame is queued, and a
\* speech-to-text call returns (with an answer or with an error)
SpecAudioFair ==
  /\ SpecAudio
  /\ \A s \in Speakers : WF_vars(ReadFrame(s))
  /\ \A s \in Speakers :
       WF_vars(SttFail(s) \/ \E text \in AudioTexts : SttAnswer(s, text))

(***************************************************************************)
(* The merge on its own: sessions in which transcripts are appended and no *)
(* timer fires before the next transcript arrives                          *)
(***************************************************************************)
\* accepted transcripts in the runs of the merge
MaxAppendsMerge == 3

\* the word " abc", n times
RepAbc(n) == [i \in 1..(4 * n) |-> <<" ","a","b","c">>[((i - 1) % 4) + 1]]

TextHi == <<"h","i">>

\* "Hi ab abc ... abc": 79 normalized characters more than "hi"
TextHiPlus79 == <<"H","i"," ","a","b">> \o RepAbc(19)

\* "Hi abc ... abc": 80 normalized characters more than "hi"
TextHiPlus80 == <<"H","i">> \o RepAbc(20)

TextThisIsATest ==
  <<"T","h","i","s"," ","i","s",","," ","a"," ","t","e","s","t",".">>

\* seven words: more than the overlap search looks at
TextSeven == <<"a"," ","b"," ","c"," ","d"," ","e"," ","f"," ","g">>

\* the transcripts appended in the runs of the merge: trimmed, each with a
\* letter or digit, as processPcm16Frame hands them over
MergeTexts ==
  {SliceThisIs, TextThisIsATest, SliceHello, SliceLazyDog, TextHi,
   TextHiPlus79, TextHiPlus80, TextSeven}

InitMerge ==
  /\ InitAgent
  /\ faultsLeft = 0
  /\ options = [targetLanguage |-> sessionTargetLanguage, sttLanguage |-> ""]
  /\ appendCap = MaxAppendsMerge

NextMerge ==
  \/ Start
  \/ \E s \in Speakers : TrackSubscribed(s)
  \/ \E s \in Speakers : WindowEmitted(s)
  \/ \E s \in Speakers, slice \in MergeTexts : SttAccept(s, slice)

SpecMerge == InitMerge /\ [][NextMerge]_vars


(***************************************************************************)
(* Sessions in which a transcript ends in a weak end word                  *)
(***************************************************************************)
\* accepted transcripts in the runs with weak end words
MaxAppendsWeak == 2

SliceItWas == <<"i","t"," ","w","a","s",".">>

\* the transcripts of these runs: a strong ending, and a short sentence that
\* ends in the weak end word "was"
WeakSlices == {SliceLazyDog, SliceItWas}

InitWeak ==
  /\ InitAgent
  /\ faultsLeft = 0
  /\ options = [targetLanguage |-> sessionTargetLanguage, sttLanguage |-> ""]
  /\ appendCap = MaxAppendsWeak

NextWeak ==
  \/ Start
  \/ Stop
  \/ StopFlushed
  \/ StopDone
  \/ Disconnected
  \/ \E s \in Speakers : TrackSubscribed(s)
  \/ \E s \in Speakers : StreamEnd(s)
  \/ \E s \in Speakers : WindowEmitted(s)
  \/ \E s \in Speakers : LoopExit(s)
  \/ \E s \in Speakers : SttDrop(s)
  \/ \E s \in Speakers, slice \in WeakSlices : SttAccept(s, slice)
  \/ \E s \in Speakers : PauseFire(s)
  \/ \E s \in Speakers : OrphanFire(s)
  \/ \E s \in Speakers : FinalizeFire(s)
  \/ \E i \in 1..Len(flights) : SendDone(i)
  \/ \E i \in 1..Len(flights) : LlmDone(i)
  \/ \E i \in 1..Len(flights) : LlmFail(i)
  \/ \E i \in 1..Len(flights) : TpubDone(i)

SpecWeak == InitWeak /\ [][NextWeak]_vars


(***************************************************************************)
(* The overlap search of the merge: sessions whose transcripts share words *)
(* across chunk boundaries, without timers                                 *)
(***************************************************************************)
\* accepted transcripts in the runs of the overlap search
MaxAppendsOverlap == 3

TextQuickBrown ==
  <<"t","h","e"," ","q","u","i","c","k"," ","b","r","o","w","n">>

TextBrownFox ==
  <<"b","r","o","w","n"," ","f","o","x"," ","j","u","m","p","s">>

\* "Brown, fox": the first word differs from its normalized form and is
\* followed by punctuation
TextBrownCommaFox == <<"B","r","o","w","n",","," ","f","o","x">>

\* "this isn't it": begins with the characters of "this is", not with its words
TextThisIsnt == <<"t","h","i","s"," ","i","s","n","'","t"," ","i","t">>

\* eight words, the last seven of which are the words of TextSeven
TextXSeven == <<"x"," ">> \o TextSeven

\* eight words, the first seven of which are the words of TextSeven
TextSevenH == TextSeven \o <<" ","h">>

\* the transcripts appended in the runs of the overlap search
OverlapTexts ==
  {TextQuickBrown, TextBrownFox, TextBrownCommaFox, SliceThisIs, TextThisIsnt,
   TextXSeven, TextSevenH}

InitOverlap ==
  /\ InitAgent
  /\ faultsLeft = 0
  /\ options = [targetLanguage |-> sessionTargetLanguage, sttLanguage |-> ""]
  /\ appendCap = MaxAppendsOverlap

NextOverlap ==
  \/ Start
  \/ \E s \in Speakers : TrackSubscribed(s)
  \/ \E s \in Speakers : WindowEmitted(s)
  \/ \E s \in Speakers, slice \in OverlapTexts : SttAccept(s, slice)

SpecOverlap == InitOverlap /\ [][NextOverlap]_vars



(***************************************************************************)
(* The HTTP control surface: POST /start and POST /stop.  The server sees  *)
(* an agent through start() and stop() only, each of which returns or      *)
(* throws; agents[a] keeps what the server can observe of agent a.         *)
(***************************************************************************)
\* requests the server receives in one run
MaxRequests == 4

\* a request body without roomName
NoRoom == ""

\* every variable of the agent whose pipeline the other sections follow
agentVars ==
  <<started, isRunning, loop, pendingOrder, pendingBySpeaker, orphanTimers,
    finalizeTimerBySpeaker, sentenceIdBySpeaker, currentSentenceId, flights,
    wire, stopPc, faultsLeft, accepted, stopSnap, discMark,
    options, participantLanguagePrefs, prefsFrom, appendCap, audioVars>>

\* every request received so far has been answered
AllAnswered == \A k \in DOMAIN requests : requests[k].pc = "done"

\* a request on arrival.  alone, called and ran are history: no other request
\* was being handled on arrival; the handler called agent.stop(); that call
\* found isRunning set
NewRequest(kind, r) ==
  [kind |-> kind, room |-> r, pc |-> "new", status |-> 0, agent |-> 0,
   alone |-> AllAnswered, called |-> FALSE, ran |-> FALSE]

\* res.status(status).json(...)
Answer(req, status) == [req EXCEPT !.pc = "done", !.status = status]

\* new TranscriptionAgent(...): isRunning = false
NewAgent(r) == [room |-> r, isRunning |-> FALSE, started |-> FALSE, stopCalls |-> 0]

\* POST /start up to "await at.toJwt()": 400 without roomName, 200 when the
\* room is in the map
PostStart(r) ==
  /\ Len(requests) < MaxRequests
  /\ LET req == NewRequest("start", r)
     IN requests' =
          Append(requests,
                 IF r = NoRoom THEN Answer(req, 400)
                 ELSE IF activeSessions[r] # 0 THEN Answer(req, 200)
                 ELSE [req EXCEPT !.pc = "jwt"])
  /\ UNCHANGED <<agentVars, activeSessions, agents>>

\* the token is minted: the agent is created and agent.start() is called
JwtDone(q) ==
  /\ q \in DOMAIN requests
  /\ requests[q].pc = "jwt"
  /\ agents' = Append(agents, NewAgent(requests[q].room))
  /\ requests' = [requests EXCEPT ![q].pc = "starting", ![q].agent = Len(agents) + 1]
  /\ UNCHANGED <<agentVars, activeSessions>>

\* agent.start() throws after the entry was stored in the map
StartThrowsKeepsEntry(q) ==
  /\ q \in DOMAIN requests
  /\ requests[q].pc = "starting"
  /\ activeSessions' = [activeSessions EXCEPT ![requests[q].room] = requests[q].agent]
  /\ requests' = [requests EXCEPT ![q] = Answer(@, 500)]
  /\ UNCHANGED <<agentVars, agents>>

\* agent.start() throws (room.connect failed): the catch answers 500
StartThrows(q) ==
  /\ q \in DOMAIN requests
  /\ requests[q].pc = "starting"
  /\ requests' = [requests EXCEPT ![q] = Answer(@, 500)]
  /\ UNCHANGED <<agentVars, activeSessions, agents>>

\* agent.start() returns: activeSessions.set(roomName, agent), then 200
StartReturns(q) ==
  /\ q \in DOMAIN requests
  /\ requests[q].pc = "starting"
  /\ agents' = [agents EXCEPT ![requests[q].agent].isRunning = TRUE,
                              ![requests[q].agent].started = TRUE]
  /\ activeSessions' = [activeSessions EXCEPT ![requests[q].room] = requests[q].agent]
  /\ requests' = [requests EXCEPT ![q] = Answer(@, 200)]
  /\ UNCHANGED agentVars

\* the room reports Disconnected to a running agent: isRunning = false
AgentDisconnected(a) ==
  /\ a \in DOMAIN agents
  /\ agents[a].isRunning
  /\ agents' = [agents EXCEPT ![a].isRunning = FALSE]
  /\ UNCHANGED <<agentVars, activeSessions, requests>>

\* POST /stop up to "await agent.stop()": 400 without roomName, 200 when the
\* room is not in the map, else agent.stop() is called
PostStop(r) ==
  /\ Len(requests) < MaxRequests
  /\ LET req == NewRequest("stop", r)
         a == activeSessions[r]
     IN IF r = NoRoom
          THEN /\ requests' = Append(requests, Answer(req, 400))
               /\ UNCHANGED agents
        ELSE IF a = 0
          THEN /\ requests' = Append(requests, Answer(req, 200))
               /\ UNCHANGED agents
        ELSE /\ requests' =
                  Append(requests,
                         [req EXCEPT !.pc = "stopping", !.agent = a, !.called = TRUE,
                                     !.ran = agents[a].isRunning])
             /\ agents' = [agents EXCEPT ![a].stopCalls = @ + 1]
  /\ UNCHANGED <<agentVars, activeSessions>>

\* agent.stop() returns and the entry stays in the map
StopReturnsKeepsEntry(q) ==
  /\ q \in DOMAIN requests
  /\ requests[q].pc = "stopping"
  /\ agents' = [agents EXCEPT ![requests[q].agent].isRunning = FALSE]
  /\ requests' = [requests EXCEPT ![q] = Answer(@, 200)]
  /\ UNCHANGED <<agentVars, activeSessions>>

\* agent.stop() returns (isRunning is false now, or was on entry):
\* activeSessions.delete(roomName), then 200
StopReturns(q) ==
  /\ q \in DOMAIN requests
  /\ requests[q].pc = "stopping"
  /\ agents' = [agents EXCEPT ![requests[q].agent].isRunning = FALSE]
  /\ activeSessions' = [activeSessions EXCEPT ![requests[q].room] = 0]
  /\ requests' = [requests EXCEPT ![q] = Answer(@, 200)]
  /\ UNCHANGED agentVars

\* agent.stop() throws (room.disconnect failed; isRunning stays set): the
\* catch answers 500 and the entry stays in the map
StopThrows(q) ==
  /\ q \in DOMAIN requests
  /\ requests[q].pc = "stopping"
  /\ requests[q].ran
  /\ requests' = [requests EXCEPT ![q] = Answer(@, 500)]
  /\ UNCHANGED <<agentVars, activeSessions, agents>>

InitServerRun ==
  /\ InitAgent
  /\ faultsLeft = 0
  /\ options = [targetLanguage |-> "en", sttLanguage |-> ""]
  /\ appendCap = 0

NextServer ==
  \/ \E r \in Rooms \cup {NoRoom} : PostStart(r)
  \/ \E r \in Rooms \cup {NoRoom} : PostStop(r)
  \/ \E q \in 1..Len(requests) : JwtDone(q)
  \/ \E q \in 1..Len(requests) : StartReturns(q)
  \/ \E q \in 1..Len(requests) : StartThrows(q)
  \/ \E q \in 1..Len(requests) : StopReturns(q)
  \/ \E q \in 1..Len(requests) : StopThrows(q)
  \/ \E a \in 1..Len(agents) : AgentDisconnected(a)

SpecServer == InitServerRun /\ [][NextServer]_vars


(***************************************************************************)
(* Views of the published stream used by the properties                    *)
(***************************************************************************)
IsTranscription(r, s) == r.type = "transcription" /\ r.speaker = s

IsFinal(r, s) == IsTranscription(r, s) /\ r.final

IsTranslation(r, s) == r.type = "translation" /\ r.speaker = s

\* the sentence ids of one speaker's final records, in publication order
FinalIds(s) ==
  LET fin == SelectSeq(Published, LAMBDA r : IsFinal(r, s))
  IN [k \in DOMAIN fin |-> fin[k].sentenceId]

\* no publishData call of the run has failed
NoFault == \A i \in DOMAIN wire : wire[i].ok

(***************************************************************************)
(* Properties                                                              *)
(***************************************************************************)
\* C1: for every speaker and sentence id n, at most one published
\* transcription record with final=true carries id n.
C1_OneFinalPerId ==
  \A s \in Speakers : \A i, j \in DOMAIN Published :
    (i < j /\ IsFinal(Published[i], s) /\ IsFinal(Published[j], s))
      => Published[i].sentenceId # Published[j].sentenceId

\* C2: once a final record with id n is published for a speaker, no later
\* transcription record of that speaker (interim or final) carries id n.
C2_FinalIsLast ==
  \A s \in Speakers : \A i, j \in DOMAIN Published :
    (i < j /\ IsFinal(Published[i], s) /\ IsTranscription(Published[j], s))
      => Published[j].sentenceId # Published[i].sentenceId

\* C3: one speaker's final records, in publication order, carry the ids
\* 1, 2, 3, ... with no gap and no repetition.
C3_FinalIdsContiguous ==
  \A s \in Speakers : \A k \in DOMAIN FinalIds(s) : FinalIds(s)[k] = k

\* C4: in publication order the sentenceId of one speaker's transcription
\* records (interim and final) never decreases.
C4_IdsNonDecreasing ==
  \A s \in Speakers : \A i, j \in DOMAIN Published :
    (i < j /\ IsTranscription(Published[i], s) /\ IsTranscription(Published[j], s))
      => Published[i].sentenceId <= Published[j].sentenceId

\* C4 witness: a speaker has transcription records of two different sentences
C4_Witness ==
  \E s \in Speakers : \E i, j \in DOMAIN Published :
    /\ i < j
    /\ IsTranscription(Published[i], s)
    /\ IsTranscription(Published[j], s)
    /\ Published[i].sentenceId < Published[j].sentenceId

\* C5 as claimed: every published translation record is preceded in
\* publication order by a published final transcription record with the same
\* speaker, the same id and text equal to the translation's originalText.
C5_TranslationAfterFinal ==
  \A s \in Speakers : \A j \in DOMAIN Published :
    IsTranslation(Published[j], s) =>
      \E i \in 1..(j - 1) :
        /\ IsFinal(Published[i], s)
        /\ Published[i].sentenceId = Published[j].sentenceId
        /\ Published[i].text = Published[j].text

\* C5 amended: every published translation record is preceded, in the order of
\* the publishData calls, by the call that publishes the final transcription
\* record with the same speaker, id and text; that record is in the published
\* stream unless its publish failed.
C5_TranslationAfterFinalCall ==
  \A s \in Speakers : \A j \in DOMAIN wire :
    (IsTranslation(wire[j], s) /\ wire[j].ok) =>
      \E i \in 1..(j - 1) :
        /\ IsFinal(wire[i], s)
        /\ wire[i].sentenceId = wire[j].sentenceId
        /\ wire[i].text = wire[j].text

\* C5 witness: a translation is published after its final transcription record
C5_Witness ==
  \E s \in Speakers : \E j \in DOMAIN wire :
    /\ IsTranslation(wire[j], s) /\ wire[j].ok
    /\ \E i \in 1..(j - 1) :
         /\ IsFinal(wire[i], s) /\ ~wire[i].ok
         /\ wire[i].sentenceId = wire[j].sentenceId
         /\ wire[i].text = wire[j].text

\* C6: for every speaker and sentence id at most one translation record is
\* published.
C6_OneTranslationPerId ==
  \A s \in Speakers : \A i, j \in DOMAIN Published :
    (i < j /\ IsTranslation(Published[i], s) /\ IsTranslation(Published[j], s))
      => Published[i].sentenceId # Published[j].sentenceId

\* nothing is scheduled or in flight for the speaker: no pause or finalize
\* timer is armed and no flushSentence call is suspended
Quiescent(s) ==
  /\ ~pendingBySpeaker[s].timer
  /\ orphanTimers[s] = 0
  /\ finalizeTimerBySpeaker[s] # "armed"
  /\ \A i \in DOMAIN flights : flights[i].speaker # s

\* one speaker's published transcription records, in publication order
Transcriptions(s) == SelectSeq(Published, LAMBDA r : IsTranscription(r, s))

\* C7: when "Hello world." is the speaker's only accepted transcript, the agent
\* publishes for it, without stop() being called, exactly one transcription
\* record, with sentenceId 1 and final=true.  Stated on the states in which
\* nothing more can be published unless a transcript arrives or stop() is called.
C7_HelloWorldFinal ==
  \A s \in Speakers :
    (/\ accepted[s] = <<SliceHello>>
     /\ Quiescent(s)
     /\ isRunning
     /\ stopPc = "idle"
     /\ NoFault)
      => Transcriptions(s) = <<TranscriptionRecord(s, SliceHello, 1, TRUE, TRUE)>>

\* C8: a sentence keeps one id across its interim and final records: the
\* transcription record that follows an interim record with id n of the same
\* speaker carries id n too (so do all records up to the next final).
C8_InterimKeepsId ==
  \A s \in Speakers : \A k \in DOMAIN Transcriptions(s) :
    (k > 1 /\ ~Transcriptions(s)[k - 1].final)
      => Transcriptions(s)[k].sentenceId = Transcriptions(s)[k - 1].sentenceId

\* the final records that carry the buffer flushed by stop(), among the
\* records published before room.disconnect() was invoked
StopFinals(s) ==
  {i \in 1..discMark :
     /\ wire[i].ok
     /\ IsFinal(wire[i], s)
     /\ wire[i].text = stopSnap[s].text
     /\ wire[i].sentenceId = stopSnap[s].sid}

\* C9: when stop() is called while a speaker has a non-empty buffer, exactly
\* one final record carrying that buffer's text is published for the speaker
\* before room.disconnect() is invoked.
C9_StopFlushesOnce ==
  \A s \in Speakers :
    (stopPc \in {"disconnecting", "done"} /\ stopSnap[s].text # <<>> /\ NoFault)
      => Cardinality(StopFinals(s)) = 1

\* C10: when a speaker's audio stream has ended while the buffer is non-empty,
\* a final record carrying the accumulated buffer is published.  Stated on the
\* states in which nothing more can be published unless stop() is called.
C10_StreamEndFinal ==
  \A s \in Speakers :
    (/\ loop[s] = "ended"
     /\ pendingBySpeaker[s].text # <<>>
     /\ Quiescent(s)
     /\ isRunning
     /\ stopPc = "idle"
     /\ NoFault)
      => \E i \in DOMAIN Published :
           /\ IsFinal(Published[i], s)
           /\ Published[i].text = pendingBySpeaker[s].text

\* the speaker's map entry holds text that flushSentence would publish
HasText(s) == HasEntry(s) /\ trim(pendingBySpeaker[s].text) # <<>>

\* C11: when the Disconnected event is delivered to a running agent (stop()
\* has not been called), a final
\* flush is started for every speaker with a non-empty buffer: the handler
\* calls publishData with a final record that carries the buffer's text.
C11_DisconnectFlushes ==
  [][(Disconnected /\ stopPc = "idle") =>
       \A s \in Speakers :
         HasText(s) =>
           \E i \in (Len(wire) + 1)..Len(wire') :
             /\ IsFinal(wire'[i], s)
             /\ wire'[i].text = trim(pendingBySpeaker[s].text)]_vars

\* C12: once stop() has completed, the agent makes no further publishData
\* call, neither for a transcription nor for a translation record.
C12_NoPublishAfterStop ==
  [][stopPc = "done" => wire' = wire]_vars

\* C13: when a final flush reaches its translation decision and the resolved
\* target language equals the recognition language, the flush ends there: no
\* language-model request is made for the sentence.
C13_SkipSameLanguage ==
  [][\A i \in DOMAIN flights :
       (/\ SendDone(i)
        /\ flights[i].final
        /\ sttLangOf(flights[i].speaker) # ""
        /\ targetLangOf(flights[i].speaker) = sttLangOf(flights[i].speaker))
         => Len(flights') = Len(flights) - 1]_vars

\* the target language the preferences stored now give speaker s: the stored
\* targetLanguage when there is one, the session default otherwise
StoredTarget(s) ==
  IF participantLanguagePrefs[s].targetLanguage # ""
    THEN participantLanguagePrefs[s].targetLanguage
    ELSE options.targetLanguage

\* C14: the targetLanguage of a translation record is the stored preference of
\* its speaker, read when the final flush calls translateAndSend, when one is
\* stored, and the session default otherwise.
C14_TargetFromPrefs ==
  [][\A i \in DOMAIN flights :
       /\ (SendDone(i) /\ Len(flights') = Len(flights))
            => flights'[i].lang = StoredTarget(flights[i].speaker)
       /\ (LlmDone(i) /\ Len(wire') = Len(wire) + 1)
            => /\ IsTranslation(wire'[Len(wire')], flights[i].speaker)
               /\ wire'[Len(wire')].targetLanguage = flights[i].lang]_vars

\* C14 witness: a translation record is published whose targetLanguage is the
\* speaker's stored preference and differs from the session default
C14_Witness ==
  \E s \in Speakers : \E j \in DOMAIN Published :
    /\ IsTranslation(Published[j], s)
    /\ Published[j].targetLanguage # options.targetLanguage
    /\ Published[j].targetLanguage = "fr"

\* C15: the stored preferences of a participant were set, if at all, by a
\* language_prefs message that this participant sent.
C15_PrefsOnlyFromSelf ==
  \A p \in Speakers : prefsFrom[p] \in {"none", p}

\* C16: a non-empty transcript is handed to the sentence assembler, and the
\* speaker's recent memory becomes (text, now), if and only if none of these
\* holds: its text equals a blocklist phrase case-insensitively; it has no
\* letter or digit; it has at most 2 words, the window RMS is below
\* SHORT_HIGH_RMS, it equals the last accepted text and less than
\* REPEAT_WINDOW_MS elapsed since that acceptance.  Otherwise nothing is
\* handed over and the memory is unchanged.
C16_FilterAcceptsIff ==
  [][\A s \in Speakers : \A text \in AudioTexts :
       (/\ loop[s] = "stt"
        /\ (accepted'[s] # accepted[s]
              \/ audioHist'[s].filtered # audioHist[s].filtered)
        /\ SttAnswer(s, text)) =>
         LET blocked == \E ph \in BlocklistEnv :
                          toLowerCase(trim(text)) = toLowerCase(trim(ph))
             noAlphaNum == ~\E i \in DOMAIN text : IsAlphaNum(text[i])
             lowRepeat == /\ wordCountOf(text) <= 2
                          /\ rmsBelow(capture[s].data, ShortHighRms)
                          /\ recentBySpeaker[s].lastText = text
                          /\ now - recentBySpeaker[s].lastAt < RepeatWindowMs
         IN IF blocked \/ noAlphaNum \/ lowRepeat
              THEN accepted'[s] = accepted[s]
                   /\ recentBySpeaker'[s] = recentBySpeaker[s]
              ELSE accepted'[s] = Append(accepted[s], text)
                   /\ recentBySpeaker'[s] = [lastText |-> text, lastAt |-> now]]_vars

\* C16 witness: "uh" was accepted once and its repetition was dropped
C16_Witness ==
  \E s \in Speakers :
    accepted[s] = <<TextUh>> /\ audioHist[s].filtered = <<TextUh>>

\* C17: a window whose RMS, computed over the saved tail and the new frames,
\* is below vadThreshold causes no speech-to-text call and no record, and the
\* saved tail becomes that window's tail; while every window has been below
\* the threshold there is no speech-to-text call and no record.
C17_SilentWindowDropped ==
  /\ [][\A s \in Speakers :
          LET data == capture[s].prevTail \o capture[s].buffer
                        \o <<Head(stream[s].queue)>>
          IN (/\ ReadFrame(s)
              /\ ~stream[s].muted
              /\ capture[s].collectedMs + FrameMs >= TargetMs
              /\ rmsBelow(data, VadThreshold))
               => /\ audioHist'[s].sttCalls = audioHist[s].sttCalls
                  /\ loop'[s] # "stt"
                  /\ wire' = wire
                  /\ capture'[s].prevTail =
                       SubSeq(data, Len(data) - Min(TailSamples, Len(data)) + 1,
                              Len(data))]_vars
  /\ [](\A s \in Speakers :
          (\A k \in DOMAIN audioHist[s].windows : audioHist[s].windows[k].low)
            => audioHist[s].sttCalls = 0 /\ accepted[s] = <<>> /\ wire = <<>>)

\* C17 witness: the second window of a track was below the threshold and its
\* last sample is the saved tail
C17_Witness ==
  \E s \in Speakers :
    LET ws == audioHist[s].windows
    IN /\ Len(ws) = 2
       /\ ws[2].low
       /\ capture[s].prevTail = <<ws[2].data[Len(ws[2].data)]>>
       /\ capture[s].prevTail # <<ws[1].data[Len(ws[1].data)]>>

\* C18: a window emitted after a frame was discarded because the track was
\* muted holds no sample received before that frame.
C18_MuteClearsTail ==
  \A s \in Speakers : \A k \in DOMAIN audioHist[s].windows :
    LET w == audioHist[s].windows[k]
    IN \A n \in DOMAIN w.data : w.data[n].id > w.mutedBefore

\* every frame the track has delivered is still queued, is buffered, was
\* discarded by a mute, or is part of a completed window; and every completed
\* window at or above the VAD threshold was submitted to speech-to-text
FramesAccounted ==
  \A s \in Speakers :
    /\ \A id \in 1..stream[s].produced :
         \/ id \in FrameIds(stream[s].queue)
         \/ id \in FrameIds(capture[s].buffer)
         \/ id \in audioHist[s].mutedIds
         \/ \E k \in DOMAIN audioHist[s].windows : id \in audioHist[s].windows[k].ids
    /\ audioHist[s].sttCalls =
         Cardinality({k \in DOMAIN audioHist[s].windows : ~audioHist[s].windows[k].low})

\* C19: no frame is lost while a speech-to-text call is awaited, every
\* completed window at or above the VAD threshold on an unmuted track is
\* submitted to speech-to-text, and the frames queued behind a speech-to-text
\* call are eventually read, unless the loop has ended because the agent no
\* longer runs.
C19_NoWindowLost ==
  /\ []FramesAccounted
  /\ \A s \in Speakers :
       (stream[s].queue # <<>>) ~> (stream[s].queue = <<>> \/ loop[s] = "ended")

\* C19 witness: a window made of frames that arrived while an earlier
\* speech-to-text call was awaited has been submitted
C19_Witness ==
  \E s \in Speakers : \E k \in DOMAIN audioHist[s].windows :
    LET w == audioHist[s].windows[k]
    IN /\ ~w.low
       /\ loop[s] = "stt"
       /\ k = Len(audioHist[s].windows)
       /\ \A n \in DOMAIN w.data : w.data[n].id \in w.ids => w.data[n].backlog

\* C20: when the speech-to-text call of a window fails, the buffer, the
\* active sentence id, the id counter, the recent memory and the timers are
\* left as they were, nothing is published, and a running agent goes on to
\* read the next frame.
C20_SttFailureHarmless ==
  [][\A s \in Speakers :
       SttFail(s) =>
         /\ UNCHANGED <<pendingBySpeaker, pendingOrder, currentSentenceId,
                        sentenceIdBySpeaker, recentBySpeaker,
                        finalizeTimerBySpeaker, orphanTimers, wire, flights>>
         /\ (isRunning => loop'[s] = "read")]_vars

\* C20 witness: of two speech-to-text calls one was answered and accepted and
\* the other failed; the buffer holds the accepted text and the loop reads on
\* (a filtered answer would be in the history of dropped transcripts)
C20_Witness ==
  \E s \in Speakers :
    /\ audioHist[s].sttCalls = 2
    /\ Len(accepted[s]) = 1
    /\ audioHist[s].filtered = <<>>
    /\ loop[s] = "read"
    /\ isRunning
    /\ pendingBySpeaker[s].text = accepted[s][1]

\* C21: a flushSentence call returns with the same state changes whether or
\* not its publishData calls were rejected or its language-model call failed:
\* a final flush leaves an empty buffer and no active sentence id, an interim
\* flush leaves the text it published and the active id; the id counter, the
\* timers, the capture loops and isRunning are as they were.
C21_FailureSwallowed ==
  [][\A i \in DOMAIN flights :
       LET f == flights[i]
           s == f.speaker
       IN (/\ Len(flights') = Len(flights) - 1
           /\ (SendDone(i) \/ LlmFail(i) \/ TpubDone(i)))
            => /\ IF f.final
                    THEN /\ pendingBySpeaker'[s] = EmptyEntry
                         /\ currentSentenceId'[s] = 0
                    ELSE /\ pendingBySpeaker'[s] = [text |-> f.text, timer |-> FALSE]
                         /\ currentSentenceId'[s] = currentSentenceId[s]
               /\ UNCHANGED <<sentenceIdBySpeaker, finalizeTimerBySpeaker, loop,
                              isRunning, stopPc, wire>>]_vars

\* C21 witness: the final record of sentence 1 was rejected and its
\* language-model call made no translation; the flush has returned, and the
\* speaker's next transcript was published under id 2
C21_Witness ==
  \E s \in Speakers :
    /\ Len(wire) = 2
    /\ wire[1] = TranscriptionRecord(s, SliceLazyDog, 1, TRUE, FALSE)
    /\ IsTranscription(wire[2], s) /\ wire[2].ok /\ wire[2].sentenceId = 2
    /\ wire[2].text = SliceThisIs
    /\ Len(accepted[s]) = 2
    /\ stopPc = "idle"

HasAlphaNum(text) == \E i \in DOMAIN text : IsAlphaNum(text[i])

\* C22: for a non-empty text X with a letter or digit, appending the slice X
\* to the buffer X leaves the buffer equal to X; so a transcript delivered
\* two or three times in a row leaves the buffer equal to it.
C22_MergeIdempotent ==
  /\ [][\A s \in Speakers : \A X \in MergeTexts :
          (/\ HasEntry(s)
           /\ pendingBySpeaker[s].text = X
           /\ HasAlphaNum(X)
           /\ SttAccept(s, X))
            => pendingBySpeaker'[s].text = X]_vars
  /\ [](\A s \in Speakers :
          (/\ accepted[s] # <<>>
           /\ HasAlphaNum(accepted[s][1])
           /\ \A k \in DOMAIN accepted[s] : accepted[s][k] = accepted[s][1])
            => pendingBySpeaker[s].text = accepted[s][1])

\* C22 witness: a transcript of seven words was delivered three times and the
\* buffer holds it once
C22_Witness ==
  \E s \in Speakers :
    /\ accepted[s] = <<TextSeven, TextSeven, TextSeven>>
    /\ pendingBySpeaker[s].text = TextSeven

\* C23: when the normalized slice begins with the non-empty normalized buffer
\* and is less than 80 characters longer, the buffer after the append is the
\* trimmed slice, character for character.
C23_RestatementReplaces ==
  [][\A s \in Speakers : \A slice \in MergeTexts :
       LET prevNorm == normalize(pendingBySpeaker[s].text)
           sliceNorm == normalize(slice)
       IN (/\ SttAccept(s, slice)
           /\ prevNorm # <<>>
           /\ Len(prevNorm) <= Len(sliceNorm)
           /\ SubSeq(sliceNorm, 1, Len(prevNorm)) = prevNorm
           /\ Len(sliceNorm) - Len(prevNorm) < 80)
            => pendingBySpeaker'[s].text = trim(slice)]_vars

\* C23 witness: a slice 79 normalized characters longer than the buffer "hi"
\* replaced it, capital letter included
C23_Witness ==
  \E s \in Speakers :
    /\ accepted[s] = <<TextHi, TextHiPlus79>>
    /\ pendingBySpeaker[s].text = TextHiPlus79

\* the request that arrives at this step, once the handler has run up to its
\* first await
Arrived == requests'[Len(requests')]

\* C24: POST /start without roomName answers 400 and touches neither the map
\* nor the agents; for a room that is in the map it answers 200 and creates no
\* agent; when agent.start() throws it answers 500, the map is as it was and
\* does not hold the failed agent, and the room has no entry when no other
\* request was handled at the same time.  Every agent in the map is one
\* whose start() returned.
C24_StartAnswers ==
  /\ [][/\ PostStart(NoRoom)
             => Arrived.status = 400 /\ UNCHANGED <<activeSessions, agents>>
        /\ \A r \in Rooms :
             (PostStart(r) /\ activeSessions[r] # 0)
               => Arrived.status = 200 /\ UNCHANGED <<activeSessions, agents>>
        /\ \A q \in DOMAIN requests :
             StartThrows(q)
               => /\ requests'[q].status = 500
                  /\ activeSessions' = activeSessions
                  /\ \A r \in Rooms : activeSessions'[r] # requests[q].agent
                  /\ (requests[q].alone /\ q = Len(requests))
                       => activeSessions'[requests[q].room] = 0]_vars
  /\ [](\A r \in Rooms :
          activeSessions[r] # 0 => agents[activeSessions[r]].started)

\* C24 witness: a /start for a room with a session was answered 200 without
\* an agent of its own, and after the session was stopped a /start whose
\* agent.start() threw was answered 500 and the room has no entry
C24_Witness ==
  \E i, k \in DOMAIN requests :
    /\ i < k
    /\ requests[i].kind = "start" /\ requests[i].status = 200
    /\ requests[i].agent = 0
    /\ requests[k].kind = "start" /\ requests[k].status = 500
    /\ requests[k].alone
    /\ activeSessions[requests[k].room] = 0
    /\ Len(agents) = 2

\* the requests i..k are /stop requests for room r that were handled one
\* after the other, no other request being handled at the same time
SuccessiveStops(i, k, r) ==
  /\ i <= k
  /\ \A j \in i..k :
       /\ requests[j].kind = "stop"
       /\ requests[j].room = r
       /\ requests[j].alone

\* what successive /stop requests i..k for room r leave behind: each one
\* answered so far was answered 200, only the first may have called
\* agent.stop(), and the room is absent once the first one is answered
StopsIdempotent(i, k, r) ==
  /\ \A j \in i..k : requests[j].pc = "done" => requests[j].status = 200
  /\ \A j \in (i + 1)..k : ~requests[j].called
  /\ (k = Len(requests) /\ requests[i].pc = "done") => activeSessions[r] = 0

\* a /stop without roomName answers 400 and changes neither map nor agents
StopWithoutRoom ==
  PostStop(NoRoom) => Arrived.status = 400 /\ UNCHANGED <<activeSessions, agents>>

SchedulesFinalize(text) ==
  /\ text # <<>>
  /\ text[Len(text)] \in SentenceEndChars
  /\ toLowerCase(SelectSeq(lastToken(text), IsAlphaNum)) \notin weakEndWords
  /\ Len(text) >= 24

\* C26: an append schedules a finalize timer if and only if the merged buffer
\* ends with a sentence-ending character, its last word is not a weak end
\* word and it has at least MIN_CHARS_FOR_FINAL characters; and the finalize
\* timer publishes no final record for a punctuated buffer that is shorter or
\* ends in a weak end word (its final record comes from the pause timer or
\* from stop()).
C26_FinalizeOnlyOnStrongEnd ==
  [][\A s \in Speakers :
       /\ \A slice \in WeakSlices :
            SttAccept(s, slice) =>
              IF SchedulesFinalize(pendingBySpeaker'[s].text)
                THEN finalizeTimerBySpeaker'[s] = "armed"
                ELSE finalizeTimerBySpeaker'[s] = finalizeTimerBySpeaker[s]
       /\ (/\ FinalizeFire(s)
           /\ endsSentence(pendingBySpeaker[s].text)
           /\ ~SchedulesFinalize(pendingBySpeaker[s].text))
            => wire' = wire]_vars

\* C27: when a pause timer fires while the speaker's finalize timer is
\* pending and the buffer holds text (stop() has not been called), the
\* finalize timer is cancelled, so that it cannot fire any more, and the
\* callback publishes exactly one record: a final one, with the text of the
\* buffer and the id of the current sentence.
C27_PauseWinsOverGrace ==
  [][\A s \in Speakers :
       (/\ PauseFire(s) \/ OrphanFire(s)
        /\ finalizeTimerBySpeaker[s] = "armed"
        /\ HasText(s)
        /\ stopPc = "idle")
         => /\ finalizeTimerBySpeaker'[s] = "none"
            /\ Len(wire') = Len(wire) + 1
            /\ IsTranscription(wire'[Len(wire')], s)
            /\ wire'[Len(wire')].final
            /\ wire'[Len(wire')].text = trim(pendingBySpeaker[s].text)
            /\ wire'[Len(wire')].sentenceId =
                 flushSid(currentSentenceId[s], sentenceIdBySpeaker[s])]_vars

\* C27 witness: the pause timer fired while the finalize timer of "jumps over
\* the lazy dog." was pending: the sentence has its final record, the
\* finalize timer has not fired and is no longer in the map
C27_Witness ==
  \E s \in Speakers :
    /\ accepted[s] = <<SliceLazyDog>>
    /\ Published = <<TranscriptionRecord(s, SliceLazyDog, 1, TRUE, TRUE)>>
    /\ finalizeTimerBySpeaker[s] = "none"
    /\ stopPc = "idle"

\* C28: when a pause timer fires while no finalize timer is pending for the
\* speaker (none was scheduled, or the one scheduled has fired) and the
\* callback publishes a record, the record is an interim one, the buffer is
\* retained, the id of the record stays the current sentence id and the id
\* counter does not move past it.
C28_PauseAloneIsInterim ==
  [][\A s \in Speakers :
       (/\ PauseFire(s) \/ OrphanFire(s)
        /\ finalizeTimerBySpeaker[s] # "armed"
        /\ Len(wire') = Len(wire) + 1)
         => /\ IsTranscription(wire'[Len(wire')], s)
            /\ ~wire'[Len(wire')].final
            /\ pendingBySpeaker'[s].text = pendingBySpeaker[s].text
            /\ currentSentenceId'[s] = wire'[Len(wire')].sentenceId
            /\ sentenceIdBySpeaker'[s] = wire'[Len(wire')].sentenceId]_vars

\* C29: once an append has left the buffer without a strong ending, the
\* finalize timer that an earlier append scheduled does not finalize the
\* buffer: when it fires, it publishes nothing.
C29_ContinuationReopens ==
  [][\A s \in Speakers :
       (FinalizeFire(s) /\ ~SchedulesFinalize(pendingBySpeaker[s].text))
         => wire' = wire]_vars

\* C30: when an append yields a strong-ending buffer while a finalize timer
\* is pending, no new timer is scheduled: the pending timer, with the
\* deadline the earlier append gave it, stays the speaker's finalize timer.
C30_GraceDeadlineKept ==
  [][\A s \in Speakers : \A slice \in Slices :
       (/\ SttAccept(s, slice)
        /\ finalizeTimerBySpeaker[s] = "armed"
        /\ SchedulesFinalize(pendingBySpeaker'[s].text))
         => /\ finalizeTimerBySpeaker'[s] = "armed"
            /\ audioHist'[s].graceFrom = audioHist[s].graceFrom]_vars

\* the largest k in 1..6 for which the last k words of pw are the first k
\* words of sw, 0 when there is none
LargestOverlap(pw, sw) ==
  LET ks == {k \in 1..6 : /\ k <= Len(pw)
                          /\ k <= Len(sw)
                          /\ SubSeq(pw, Len(pw) - k + 1, Len(pw)) = SubSeq(sw, 1, k)}
  IN IF ks = {} THEN 0 ELSE CHOOSE k \in ks : \A j \in ks : j <= k

\* the slice without its first k words: what follows the shortest prefix of
\* the slice that holds those k words, without leading spaces
WithoutFirstWords(slice, k) ==
  LET sw == wordsOf(normalize(slice))
      cuts == {c \in 0..Len(slice) :
                 /\ wordsOf(normalize(SubSeq(slice, 1, c))) = SubSeq(sw, 1, k)
                 /\ wordsOf(normalize(SubSeq(slice, c + 1, Len(slice))))
                      = SubSeq(sw, k + 1, Len(sw))}
      c == CHOOSE x \in cuts : \A y \in cuts : x <= y
  IN trimStart(SubSeq(slice, c + 1, Len(slice)))

\* a and b joined with one space, or the one of them that is not empty
JoinOneSpace(a, b) ==
  IF a = <<>> THEN b ELSE IF b = <<>> THEN a ELSE a \o <<" ">> \o b

\* the normalized slice begins with the non-empty normalized buffer and is
\* less than 80 characters longer
LooksLikeRestatement(prev, slice) ==
  LET prevNorm == normalize(prev)
      sliceNorm == normalize(slice)
  IN /\ prevNorm # <<>>
     /\ Len(prevNorm) <= Len(sliceNorm)
     /\ SubSeq(sliceNorm, 1, Len(prevNorm)) = prevNorm
     /\ Len(sliceNorm) - Len(prevNorm) < 80

\* C31: when the replacement branch does not apply, the buffer after the
\* append is the old buffer joined by one space to the slice without its
\* first k words, where k is the largest number in 1..6 such that the last k
\* normalized words of the buffer are the first k normalized words of the
\* slice (k = 0, the whole slice, when there is none); "the quick brown" plus
\* "brown fox jumps" gives "the quick brown fox jumps".
C31_OverlapRemoved ==
  /\ [][\A s \in Speakers : \A slice \in OverlapTexts :
          LET prev == pendingBySpeaker[s].text
              k == LargestOverlap(wordsOf(normalize(prev)), wordsOf(normalize(slice)))
          IN (SttAccept(s, slice) /\ ~LooksLikeRestatement(prev, slice))
               => pendingBySpeaker'[s].text
                    = JoinOneSpace(prev, WithoutFirstWords(slice, k))]_vars
  /\ [](\A s \in Speakers :
          accepted[s] = <<TextQuickBrown, TextBrownFox>>
            => pendingBySpeaker[s].text
                 = TextQuickBrown \o <<" ","f","o","x"," ","j","u","m","p","s">>)

\* C31 witness: "Brown, fox" was appended to "the quick brown": the one
\* overlapped word was removed and the rest joined with one space
C31_Witness ==
  \E s \in Speakers :
    /\ accepted[s] = <<TextQuickBrown, TextBrownCommaFox>>
    /\ pendingBySpeaker[s].text = TextQuickBrown \o <<" ",","," ","f","o","x">>

\* ws is qs followed by a suffix of ss, which may be empty or all of ss
FollowedBySuffix(ws, qs, ss) ==
  \E j \in 0..Len(ss) : ws = qs \o SubSeq(ss, j + 1, Len(ss))

\* qs is a prefix of ss, word by word
WordPrefix(qs, ss) == Len(qs) <= Len(ss) /\ SubSeq(ss, 1, Len(qs)) = qs

\* C32: the merge never crosses into a partial word: the normalized words of
\* the buffer after an append are the old buffer's words followed by a suffix
\* of the slice's words, or they are the slice's words and these begin with
\* the old buffer's words, word by word.
C32_NoPartialWord ==
  [][\A s \in Speakers : \A slice \in OverlapTexts :
       LET pw == wordsOf(normalize(pendingBySpeaker[s].text))
           sw == wordsOf(normalize(slice))
           nw == wordsOf(normalize(pendingBySpeaker'[s].text))
       IN SttAccept(s, slice)
            => \/ FollowedBySuffix(nw, pw, sw)
               \/ nw = sw /\ WordPrefix(pw, sw)]_vars

\* C33: of one speaker's published transcription records, two consecutive
\* interim records with the same sentence id never carry the same text.
C33_NoDuplicateInterim ==
  \A s \in Speakers : \A k \in DOMAIN Transcriptions(s) :
    (/\ k > 1
     /\ ~Transcriptions(s)[k - 1].final
     /\ ~Transcriptions(s)[k].final
     /\ Transcriptions(s)[k].sentenceId = Transcriptions(s)[k - 1].sentenceId)
      => Transcriptions(s)[k].text # Transcriptions(s)[k - 1].text

\* the words of sw stand next to each other, in order, among the words rw
HoldsWords(rw, sw) ==
  \E o \in 0..Len(rw) :
    o + Len(sw) <= Len(rw) /\ SubSeq(rw, o + 1, o + Len(sw)) = sw

\* C34: no accepted text is silently lost: once the speaker's timers have
\* fired and the flushes have returned, every accepted slice is held by the
\* text of a transcription record published for the speaker.  Stated for
\* runs whose accepted slices differ from one another (a record that holds a
\* slice was then published after the slice was appended), in which the
\* agent runs, stop() was not called and no publishData call has failed.
C34_NoAcceptedTextLost ==
  \A s \in Speakers :
    (/\ Quiescent(s)
     /\ isRunning
     /\ stopPc = "idle"
     /\ NoFault
     /\ \A j, k \in DOMAIN accepted[s] : j # k => accepted[s][j] # accepted[s][k])
      => \A k \in DOMAIN accepted[s] :
           \E i \in DOMAIN Transcriptions(s) :
             HoldsWords(wordsOf(normalize(Transcriptions(s)[i].text)),
                        wordsOf(normalize(accepted[s][k])))

\* the pause timers armed for the speaker: the one of the current entry and
\* those of entry objects that are no longer in the map
PendingPauseTimers(s) ==
  (IF pendingBySpeaker[s].timer THEN 1 ELSE 0) + orphanTimers[s]

\* C35: each speaker has at most one pending pause timer, and it is the one
\* the speaker's current entry refers to: no armed pause timer belongs to an
\* entry object that was replaced in the map.  Stated on the states in which
\* stop() has not been called.
C35_OnePauseTimer ==
  stopPc = "idle"
    => \A s \in Speakers :
         /\ PendingPauseTimers(s) <= 1
         /\ orphanTimers[s] = 0

\* the agents that are connected to room r
RunningIn(r) == {a \in DOMAIN agents : agents[a].room = r /\ agents[a].isRunning}

\* C36: at most one agent is connected to a room at any time, also when two
\* POST /start requests for the room overlap, and every connected agent is
\* the one the active-session map holds for its room, so that POST /stop
\* reaches it.
C36_OneAgentPerRoom ==
  \A r \in Rooms :
    /\ Cardinality(RunningIn(r)) <= 1
    /\ \A a \in RunningIn(r) : activeSessions[r] = a

\* C37: every room in the active-session map (every room GET /sessions lists)
\* has a running agent; and a POST /start for a room whose agent was stopped
\* by the Disconnected event goes on to start a fresh agent.
C37_ListedRoomsRun ==
  /\ [](\A r \in Rooms :
          activeSessions[r] # 0 => agents[activeSessions[r]].isRunning)
  /\ [][\A r \in Rooms :
          (/\ PostStart(r)
           /\ \A a \in DOMAIN agents : agents[a].room = r => ~agents[a].isRunning
           /\ \A q \in DOMAIN requests : requests[q].pc = "done")
            => Arrived.pc = "jwt"]_vars

\* the transcript is on the blocklist, holds no letter or digit, or is a
\* short low-energy repetition of the last accepted transcript
Rejected(s, text) ==
  \/ \E ph \in BlocklistEnv : toLowerCase(trim(text)) = toLowerCase(trim(ph))
  \/ ~HasAlphaNum(text)
  \/ /\ wordCountOf(text) <= 2
     /\ rmsBelow(capture[s].data, ShortHighRms)
     /\ recentBySpeaker[s].lastText = text
     /\ now - recentBySpeaker[s].lastAt < RepeatWindowMs

\* C38: a transcript the filter rejects leaves the speaker's repetition
\* memory (lastText and lastAt), the buffers, the sentence ids and the timers
\* as they were, so a dropped repetition does not refresh lastAt; the memory
\* always holds the last accepted transcript, with a time that is not in the
\* future.
C38_RejectedChangesNothing ==
  /\ [][\A s \in Speakers : \A text \in AudioTexts :
          (loop[s] = "stt" /\ Rejected(s, text) /\ SttAnswer(s, text))
            => /\ recentBySpeaker' = recentBySpeaker
               /\ pendingBySpeaker' = pendingBySpeaker
               /\ pendingOrder' = pendingOrder
               /\ sentenceIdBySpeaker' = sentenceIdBySpeaker
               /\ currentSentenceId' = currentSentenceId
               /\ finalizeTimerBySpeaker' = finalizeTimerBySpeaker
               /\ orphanTimers' = orphanTimers
               /\ accepted' = accepted]_vars
  /\ [](\A s \in Speakers :
          /\ recentBySpeaker[s].lastAt <= now
          /\ IF accepted[s] = <<>>
               THEN recentBySpeaker[s] = NoRecent
               ELSE recentBySpeaker[s].lastText = accepted[s][Len(accepted[s])])

\* C38 witness: "uh" was accepted at time 0 and its low-energy repetition
\* was dropped at time 1, within the repeat window: the memory still holds
\* "uh" with time 0
C38_Witness ==
  \E s \in Speakers :
    /\ accepted[s] = <<TextUh>>
    /\ audioHist[s].filtered = <<TextUh>>
    /\ recentBySpeaker[s] = [lastText |-> TextUh, lastAt |-> 0]
    /\ now = 1
    /\ loop[s] = "read"
    /\ stream[s].produced = 4
    /\ stream[s].queue = <<>>

\* C39: a language_prefs message for participant pid makes pid's stored entry
\* the two fields of the message: a field the message does not carry is unset
\* afterwards, whatever was stored before, and the language then used for pid
\* is the session's; the entries of all other participants stay as they were.
C39_PrefsReplaced ==
  [][\A from \in Participants, pid \in Participants, prefs \in PrefsPayloadsAll :
       DataReceived(from, pid, prefs)
         => /\ participantLanguagePrefs'[pid].sttLanguage = prefs.sttLanguage
            /\ participantLanguagePrefs'[pid].targetLanguage = prefs.targetLanguage
            /\ prefs.targetLanguage = "" => targetLangOf(pid)' = options.targetLanguage
            /\ prefs.sttLanguage = "" => sttLangOf(pid)' = options.sttLanguage
            /\ \A q \in Participants \ {pid} :
                 participantLanguagePrefs'[q] = participantLanguagePrefs[q]]_vars

\* C39 witness: messages have set the entries of two participants: p1's
\* holds targetLanguage alone and p2's holds sttLanguage alone
C39_Witness ==
  /\ participantLanguagePrefs["p1"] = [sttLanguage |-> "", targetLanguage |-> "de"]
  /\ participantLanguagePrefs["p2"] = [sttLanguage |-> "en", targetLanguage |-> ""]
  /\ prefsFrom["p1"] = "p1"
  /\ prefsFrom["p2"] = "p2"

\* the windows of the track that went to the speech-to-text service
SpokenWindows(s) == SelectSeq(audioHist[s].windows, LAMBDA w : ~w.low)

\* C40: for one track at most one speech-to-text call is in flight: a call
\* starts only when none is awaited, and the calls started are the windows at
\* or above the threshold, one each.  An accepted slice is the answer for the
\* window emitted last, so the slices reach the sentence assembler in the
\* order of their windows.
C40_OneCallInOrder ==
  /\ [][\A s \in Speakers :
          /\ audioHist'[s].sttCalls # audioHist[s].sttCalls
               => /\ loop[s] # "stt"
                  /\ loop'[s] = "stt"
                  /\ audioHist'[s].sttCalls = audioHist[s].sttCalls + 1
          /\ accepted'[s] # accepted[s]
               => /\ loop[s] = "stt"
                  /\ loop'[s] # "stt"
                  /\ Len(accepted'[s]) = Len(accepted[s]) + 1
                  /\ audioHist[s].windows # <<>>
                  /\ ~audioHist[s].windows[Len(audioHist[s].windows)].low
                  /\ capture[s].data
                       = audioHist[s].windows[Len(audioHist[s].windows)].data]_vars
  /\ [](\A s \in Speakers :
          /\ audioHist[s].sttCalls = Len(SpokenWindows(s))
          /\ Len(accepted[s]) + Len(audioHist[s].filtered)
               <= audioHist[s].sttCalls - (IF loop[s] = "stt" THEN 1 ELSE 0))

\* C40 witness: two windows of one track were transcribed one after the
\* other and both slices were accepted
C40_Witness ==
  \E s \in Speakers :
    /\ accepted[s] = <<TextUh, SliceThisIs>>
    /\ audioHist[s].sttCalls = 2
    /\ Len(audioHist[s].windows) = 2
    /\ loop[s] = "read"
====
